---- MODULE Spec2Model ----
(***************************************************************************)
(* State-machine model of the JaavisCLI core (src/jaavis_core.py):         *)
(*   - the block execution loops of apply_skill and deploy_project,        *)
(*   - the batch reconcilers sync_all_personas / push_all_personas and the *)
(*     single-library sync_skills,                                         *)
(*   - persona management (rename / lock / delete).                        *)
(* External processes (zsh scripts, git) and the operator are inputs:      *)
(* exit codes, raised exceptions and answers are drawn with \E.            *)
(***************************************************************************)
EXTENDS Integers, Sequences, FiniteSets, TLC

(* ---------------------------------------------------------------------- *)
(* Bounds                                                                  *)
(* ---------------------------------------------------------------------- *)
MaxBlocks == 3
MaxEdits == 2

(* ---------------------------------------------------------------------- *)
(* Execution loops: apply_skill, deploy_project (harvested and standard)   *)
(* ---------------------------------------------------------------------- *)
VARIABLES
  runner,       \* which loop runs: "apply" | "harvested" | "standard" | "none"
  dry_run,      \* apply_skill(dry_run)
  matches,      \* re.findall result (apply/harvested) or steps (standard)
  i,            \* 1-based index of the block the loop is at
  pc,           \* position of the running function
  choices,      \* choices of the Prompt.ask the operator is looking at
  launched,     \* sequence of block indices handed to subprocess
  exits,        \* exit code of each launch, parallel to launched
  tmp_files,    \* temporary scripts that exist now (by block index)
  tmp_created,  \* number of temporary scripts ever created
  presented,    \* block indices announced on the console, in order
  outcomes,     \* per-block result lines printed on the console, in order
  final,        \* closing line printed by the function, "none" if none
  aborted,      \* the operator stopped the run at a failed block
  harvest_saved,\* save_harvested_deploy wrote a strategy file
  answers       \* the operator's answers so far: [block, q, a]

execVars == <<runner, dry_run, matches, i, pc, choices, launched, exits,
              tmp_files, tmp_created, presented, outcomes, final, aborted,
              harvest_saved, answers>>

\* Libraries: the persisted configuration, the directories and their git
\* state, and the locals of the function that is reconciling them.
VARIABLES
  disk,           \* ~/.jaavis_config.json: [has_map, personas, current_persona]
  fs,             \* the library directories, by path
  cmd,            \* the function that is running, "idle" when none
  spc,            \* its position
  personas,       \* its local `personas` dict
  attached,       \* whether that dict is the one held by its `config`
  choice_idx,     \* the menu row the operator picked
  targets,        \* its list of selected persona keys
  lib_path,       \* sync_skills: get_active_library_path()
  t,              \* 1-based index of the record the loop is at
  commands,       \* sync_all_personas: git commands still to run for the record
  has_remote,     \* push_all_personas: the record's has_remote flag
  needs_pop,      \* sync_skills: a stash was made and is to be popped
  config_changed, \* the pass has a change to save
  visited,        \* persona keys the loop has reached, in order
  sync_state,     \* what the loop found at each of them: [exists, git, dirty, url]
  mk_failed,      \* persona keys whose parent directory could not be made
  git_log,        \* git commands issued by the running function, in order
  crashed,        \* the function ended with an uncaught exception
  edits,          \* number of persona-management functions run
  last_edit       \* the last of them: [op, who, new]

libVars == <<disk, fs, cmd, spc, personas, attached, choice_idx, targets,
             lib_path, t, commands,
             has_remote, needs_pop, config_changed, visited, sync_state,
             mk_failed, git_log, crashed, edits, last_edit>>

passVars == <<cmd, spc, personas, attached, choice_idx, targets, lib_path,
              t, commands, has_remote,
              needs_pop, config_changed, visited, sync_state, mk_failed,
              git_log, crashed>>

\* deploy_project, standard strategy: what it reads and what it resolves.
VARIABLES
  grade,        \* "grade" of .jaavisrc
  lockfiles,    \* which lockfiles exist in the working directory
  tools,        \* what shutil.which, kubectl cluster-info and check_system find
  issues,       \* the pre-flight warnings, in the order appended
  steps,        \* the resolved plan: [title, cmd] in order
  ppc           \* position of deploy_project before its execution loop

planVars == <<grade, lockfiles, tools, issues, steps, ppc>>

\* Document functions: parse_frontmatter, block extraction, templating.
VARIABLES
  task,         \* the function applied: "frontmatter" | "extract" | "template"
  dpc,          \* "ready" before the call, "done" after it
  content,      \* parse_frontmatter(content): a string, character by character
  yaml_mode,    \* how `import yaml` / yaml.safe_load behave
  meta,         \* what parse_frontmatter returned
  document,     \* a skill file, as the parts it was written in
  blocks,       \* what re.findall(pattern, content, re.DOTALL) returned
  cmd_block,    \* a block body, as the literals and {{key}} placeholders written
  context,      \* apply_skill(context=...): the items of the dict, in its order
  rendered      \* cmd_block after the replacement loop

docVars == <<task, dpc, content, yaml_mode, meta, document, blocks, cmd_block,
             context, rendered>>

\* main(): the status the process ends with, -1 while it runs.
VARIABLE exit_status

\* Everything but the variables of the execution loops / of the libraries.
outsideExec == <<libVars, planVars, docVars, exit_status>>
outsideLib == <<execVars, planVars, docVars, exit_status>>

\* A captured block body: a script, or one that is empty once stripped.
BlockBodies == {"cmd", ""}

\* Exit statuses of a launched script.
ExitCodes == {0, 1}

RECURSIVE SeqsUpTo(_, _)
SeqsUpTo(S, n) ==
  IF n = 0 THEN {<<>>}
  ELSE LET shorter == SeqsUpTo(S, n - 1)
       IN shorter \cup {Append(s, x) : s \in {u \in shorter : Len(u) = n - 1}, x \in S}

Range(s) == {s[k] : k \in DOMAIN s}

Last(s) == s[Len(s)]

Line(blk, msg) == [block |-> blk, msg |-> msg]

Answer(blk, q, a) == [block |-> blk, q |-> q, a |-> a]

ExecIdle ==
  /\ runner = "none" /\ dry_run = FALSE /\ matches = <<>> /\ i = 0
  /\ pc = "idle" /\ choices = {} /\ launched = <<>> /\ exits = <<>>
  /\ tmp_files = {} /\ tmp_created = 0 /\ presented = <<>>
  /\ outcomes = <<>> /\ final = "none" /\ aborted = FALSE
  /\ harvest_saved = FALSE /\ answers = <<>>

ExecStart(r, d, m) ==
  /\ runner = r /\ dry_run = d /\ matches = m /\ i = 1
  /\ pc = "begin" /\ choices = {} /\ launched = <<>> /\ exits = <<>>
  /\ tmp_files = {} /\ tmp_created = 0 /\ presented = <<>>
  /\ outcomes = <<>> /\ final = "none" /\ aborted = FALSE
  /\ harvest_saved = FALSE /\ answers = <<>>

NoPrompt == {}
YesNo == {"y", "n"}

\* ---- apply_skill ---------------------------------------------------------

\* Faulty variant: a document without blocks counts as a stopped run.
ApplyNoMatches_Aborts ==
  /\ runner = "apply" /\ pc = "begin" /\ matches = <<>>
  /\ pc' = "done" /\ final' = "no_blocks" /\ aborted' = TRUE
  /\ UNCHANGED <<runner, dry_run, matches, i, choices, launched, exits,
                 tmp_files, tmp_created, presented, outcomes, harvest_saved, answers>>
  /\ UNCHANGED outsideExec

\* `if not matches: ... return` : nothing is run and no closing line follows.
ApplyNoMatches ==
  /\ runner = "apply" /\ pc = "begin" /\ matches = <<>>
  /\ pc' = "done" /\ final' = "no_blocks"
  /\ UNCHANGED <<runner, dry_run, matches, i, choices, launched, exits,
                 tmp_files, tmp_created, presented, outcomes, aborted, harvest_saved, answers>>
  /\ UNCHANGED outsideExec

ApplyEnterLoop ==
  /\ runner = "apply" /\ pc = "begin" /\ matches # <<>>
  /\ pc' = "loop"
  /\ UNCHANGED <<runner, dry_run, matches, i, choices, launched, exits,
                 tmp_files, tmp_created, presented, outcomes, final, aborted, harvest_saved, answers>>
  /\ UNCHANGED outsideExec

\* Faulty variant: the dry-run test is missing, the block is written and run.
ApplyDryRunBlock_Runs ==
  /\ runner = "apply" /\ pc = "loop" /\ i <= Len(matches) /\ dry_run
  /\ presented' = Append(presented, i)
  /\ tmp_created' = tmp_created + 1
  /\ launched' = Append(launched, i)
  /\ exits' = Append(exits, 0)
  /\ outcomes' = Append(outcomes, Line(i, "Success"))
  /\ i' = i + 1
  /\ UNCHANGED <<runner, dry_run, matches, pc, choices,
                 tmp_files, final, aborted, harvest_saved, answers>>
  /\ UNCHANGED outsideExec

\* Loop head of a dry run: the block is shown, "(Dry Run: Skipped)" is
\* printed, `continue`.
ApplyDryRunBlock ==
  /\ runner = "apply" /\ pc = "loop" /\ i <= Len(matches) /\ dry_run
  /\ presented' = Append(presented, i)
  /\ outcomes' = Append(outcomes, Line(i, "DryRunSkipped"))
  /\ i' = i + 1
  /\ UNCHANGED <<runner, dry_run, matches, pc, choices, launched, exits,
                 tmp_files, tmp_created, final, aborted, harvest_saved, answers>>
  /\ UNCHANGED outsideExec

\* Loop head otherwise: the block is shown and "Execute this block?" asked.
ApplyPresentBlock ==
  /\ runner = "apply" /\ pc = "loop" /\ i <= Len(matches) /\ ~dry_run
  /\ presented' = Append(presented, i)
  /\ pc' = "ask_execute" /\ choices' = YesNo
  /\ UNCHANGED <<runner, dry_run, matches, i, launched, exits,
                 tmp_files, tmp_created, outcomes, final, aborted, harvest_saved, answers>>
  /\ UNCHANGED outsideExec

\* Answer "n": "Skipped by user.", next block.
ApplyDeclineBlock ==
  /\ runner = "apply" /\ pc = "ask_execute"
  /\ outcomes' = Append(outcomes, Line(i, "SkippedByUser"))
  /\ i' = i + 1 /\ pc' = "loop" /\ choices' = NoPrompt
  /\ answers' = Append(answers, Answer(i, "execute", "n"))
  /\ UNCHANGED <<runner, dry_run, matches, launched, exits,
                 tmp_files, tmp_created, presented, final, aborted, harvest_saved>>
  /\ UNCHANGED outsideExec

\* Answer "y": the script is written, made executable and run to completion.
\* Exit 0: success line, finally removes the script, next block.  Otherwise
\* the failure line and the prompt "Continue anyway?", asked inside the try,
\* so the script still exists while the operator decides.
ApplyRunBlock(code) ==
  /\ runner = "apply" /\ pc = "ask_execute"
  /\ tmp_created' = tmp_created + 1
  /\ launched' = Append(launched, i)
  /\ exits' = Append(exits, code)
  /\ IF code = 0
       THEN /\ outcomes' = Append(outcomes, Line(i, "Success"))
            /\ tmp_files' = tmp_files          \* finally: os.remove
            /\ i' = i + 1 /\ pc' = "loop" /\ choices' = NoPrompt
       ELSE /\ outcomes' = Append(outcomes, Line(i, "Failed"))
            /\ tmp_files' = tmp_files \cup {i}
            /\ pc' = "ask_continue" /\ choices' = YesNo
            /\ UNCHANGED i
  /\ answers' = Append(answers, Answer(i, "execute", "y"))
  /\ UNCHANGED <<runner, dry_run, matches, presented, final, aborted, harvest_saved>>
  /\ UNCHANGED outsideExec

\* Faulty variant: "y" re-asks for the same block instead of moving on.
ApplyContinue_Retries ==
  /\ runner = "apply" /\ pc = "ask_continue"
  /\ tmp_files' = tmp_files \ {i}
  /\ pc' = "ask_execute" /\ choices' = YesNo
  /\ answers' = Append(answers, Answer(i, "continue", "y"))
  /\ UNCHANGED <<runner, dry_run, matches, i, launched, exits, tmp_created,
                 presented, outcomes, final, aborted, harvest_saved>>
  /\ UNCHANGED outsideExec

\* Faulty variant: "y" ends the loop as "n" does.
ApplyContinue_Stops ==
  /\ runner = "apply" /\ pc = "ask_continue"
  /\ tmp_files' = tmp_files \ {i}
  /\ pc' = "done" /\ choices' = NoPrompt
  /\ final' = "Skill Applied Successfully!"
  /\ answers' = Append(answers, Answer(i, "continue", "y"))
  /\ UNCHANGED <<runner, dry_run, matches, i, launched, exits, tmp_created,
                 presented, outcomes, aborted, harvest_saved>>
  /\ UNCHANGED outsideExec

\* "Continue anyway?" answered "y": finally removes the script, next block.
ApplyContinue ==
  /\ runner = "apply" /\ pc = "ask_continue"
  /\ tmp_files' = tmp_files \ {i}
  /\ i' = i + 1 /\ pc' = "loop" /\ choices' = NoPrompt
  /\ answers' = Append(answers, Answer(i, "continue", "y"))
  /\ UNCHANGED <<runner, dry_run, matches, launched, exits, tmp_created,
                 presented, outcomes, final, aborted, harvest_saved>>
  /\ UNCHANGED outsideExec

\* Faulty variant: the break is missing, "n" moves on to the next block.
ApplyBreak_KeepsGoing ==
  /\ runner = "apply" /\ pc = "ask_continue"
  /\ tmp_files' = tmp_files \ {i}
  /\ aborted' = TRUE
  /\ i' = i + 1 /\ pc' = "loop" /\ choices' = NoPrompt
  /\ answers' = Append(answers, Answer(i, "continue", "n"))
  /\ UNCHANGED <<runner, dry_run, matches, launched, exits, tmp_created,
                 presented, outcomes, final, harvest_saved>>
  /\ UNCHANGED outsideExec

\* "Continue anyway?" answered "n": break; finally removes the script; the
\* statement after the loop prints the closing line.
ApplyBreak ==
  /\ runner = "apply" /\ pc = "ask_continue"
  /\ tmp_files' = tmp_files \ {i}
  /\ aborted' = TRUE
  /\ pc' = "done" /\ choices' = NoPrompt
  /\ final' = "Skill Applied Successfully!"
  /\ answers' = Append(answers, Answer(i, "continue", "n"))
  /\ UNCHANGED <<runner, dry_run, matches, i, launched, exits, tmp_created,
                 presented, outcomes, harvest_saved>>
  /\ UNCHANGED outsideExec

\* The loop ran out of blocks: the closing line is printed.
ApplyLoopEnd ==
  /\ runner = "apply" /\ pc = "loop" /\ i > Len(matches)
  /\ pc' = "done" /\ final' = "Skill Applied Successfully!"
  /\ UNCHANGED <<runner, dry_run, matches, i, choices, launched, exits,
                 tmp_files, tmp_created, presented, outcomes, aborted, harvest_saved, answers>>
  /\ UNCHANGED outsideExec

apply_skill ==
  \/ ApplyNoMatches
  \/ ApplyEnterLoop
  \/ ApplyDryRunBlock
  \/ ApplyPresentBlock
  \/ ApplyDeclineBlock
  \/ \E code \in ExitCodes : ApplyRunBlock(code)
  \/ ApplyContinue
  \/ ApplyBreak
  \/ ApplyLoopEnd

\* ---- deploy_project, harvested strategy ----------------------------------

\* `if not matches: ... return`
HarvestedNoMatches ==
  /\ runner = "harvested" /\ pc = "begin" /\ matches = <<>>
  /\ pc' = "done" /\ final' = "no_blocks"
  /\ UNCHANGED <<runner, dry_run, matches, i, choices, launched, exits,
                 tmp_files, tmp_created, presented, outcomes, aborted, harvest_saved, answers>>
  /\ UNCHANGED outsideExec

HarvestedEnterLoop ==
  /\ runner = "harvested" /\ pc = "begin" /\ matches # <<>>
  /\ pc' = "loop"
  /\ UNCHANGED <<runner, dry_run, matches, i, choices, launched, exits,
                 tmp_files, tmp_created, presented, outcomes, final, aborted, harvest_saved, answers>>
  /\ UNCHANGED outsideExec

\* `if not cmd_block: continue` : an empty block is passed over silently.
HarvestedEmptyBlock ==
  /\ runner = "harvested" /\ pc = "loop" /\ i <= Len(matches)
  /\ matches[i] = ""
  /\ i' = i + 1
  /\ UNCHANGED <<runner, dry_run, matches, pc, choices, launched, exits,
                 tmp_files, tmp_created, presented, outcomes, final, aborted, harvest_saved, answers>>
  /\ UNCHANGED outsideExec

\* The block is announced, written to a script and run, with no question
\* before it.  A non-zero exit prints the failure line and asks
\* "Continue anyway?" inside the try.
HarvestedRunBlock(code) ==
  /\ runner = "harvested" /\ pc = "loop" /\ i <= Len(matches)
  /\ matches[i] # ""
  /\ presented' = Append(presented, i)
  /\ tmp_created' = tmp_created + 1
  /\ launched' = Append(launched, i)
  /\ exits' = Append(exits, code)
  /\ IF code = 0
       THEN /\ tmp_files' = tmp_files          \* finally: os.remove
            /\ i' = i + 1
            /\ UNCHANGED <<pc, choices, outcomes>>
       ELSE /\ outcomes' = Append(outcomes, Line(i, "Failed"))
            /\ tmp_files' = tmp_files \cup {i}
            /\ pc' = "ask_continue" /\ choices' = YesNo
            /\ UNCHANGED i
  /\ UNCHANGED <<runner, dry_run, matches, final, aborted, harvest_saved, answers>>
  /\ UNCHANGED outsideExec

HarvestedContinue ==
  /\ runner = "harvested" /\ pc = "ask_continue"
  /\ tmp_files' = tmp_files \ {i}
  /\ i' = i + 1 /\ pc' = "loop" /\ choices' = NoPrompt
  /\ answers' = Append(answers, Answer(i, "continue", "y"))
  /\ UNCHANGED <<runner, dry_run, matches, launched, exits, tmp_created,
                 presented, outcomes, final, aborted, harvest_saved>>
  /\ UNCHANGED outsideExec

\* Faulty variant: the return is missing, the loop goes on after the refusal.
HarvestedReturn_KeepsGoing ==
  /\ runner = "harvested" /\ pc = "ask_continue"
  /\ tmp_files' = tmp_files \ {i}
  /\ aborted' = TRUE
  /\ i' = i + 1 /\ pc' = "loop" /\ choices' = NoPrompt
  /\ answers' = Append(answers, Answer(i, "continue", "n"))
  /\ UNCHANGED <<runner, dry_run, matches, launched, exits, tmp_created,
                 presented, outcomes, final, harvest_saved>>
  /\ UNCHANGED outsideExec

\* "Continue anyway?" not answered "y": return, nothing more is printed.
HarvestedReturn ==
  /\ runner = "harvested" /\ pc = "ask_continue"
  /\ tmp_files' = tmp_files \ {i}
  /\ aborted' = TRUE
  /\ pc' = "done" /\ choices' = NoPrompt
  /\ answers' = Append(answers, Answer(i, "continue", "n"))
  /\ UNCHANGED <<runner, dry_run, matches, i, launched, exits, tmp_created,
                 presented, outcomes, final, harvest_saved>>
  /\ UNCHANGED outsideExec

HarvestedLoopEnd ==
  /\ runner = "harvested" /\ pc = "loop" /\ i > Len(matches)
  /\ pc' = "done" /\ final' = "Deployment Complete!"
  /\ UNCHANGED <<runner, dry_run, matches, i, choices, launched, exits,
                 tmp_files, tmp_created, presented, outcomes, aborted, harvest_saved, answers>>
  /\ UNCHANGED outsideExec

deploy_harvested ==
  \/ HarvestedNoMatches
  \/ HarvestedEnterLoop
  \/ HarvestedEmptyBlock
  \/ \E code \in ExitCodes : HarvestedRunBlock(code)
  \/ HarvestedContinue
  \/ HarvestedReturn
  \/ HarvestedLoopEnd

\* ---- deploy_project, standard strategy -----------------------------------

ReadyChoices == {"Yes", "No", "Harvest"}

\* `if not steps and ... == "standard": ... return`
StandardNoSteps ==
  /\ runner = "standard" /\ pc = "begin" /\ matches = <<>>
  /\ pc' = "done" /\ final' = "no_steps"
  /\ UNCHANGED <<runner, dry_run, matches, i, choices, launched, exits,
                 tmp_files, tmp_created, presented, outcomes, aborted, harvest_saved, answers>>
  /\ UNCHANGED outsideExec

\* The preview table, then "Ready to execute?".
StandardPreview ==
  /\ runner = "standard" /\ pc = "begin" /\ matches # <<>>
  /\ pc' = "ask_ready" /\ choices' = ReadyChoices
  /\ UNCHANGED <<runner, dry_run, matches, i, launched, exits,
                 tmp_files, tmp_created, presented, outcomes, final, aborted, harvest_saved, answers>>
  /\ UNCHANGED outsideExec

StandardReady(action) ==
  /\ runner = "standard" /\ pc = "ask_ready"
  /\ choices' = NoPrompt
  /\ IF action = "No"
       THEN /\ pc' = "done" /\ final' = "Aborted."
            /\ UNCHANGED harvest_saved
       ELSE /\ pc' = "loop"
            /\ harvest_saved' = (action = "Harvest")
            /\ UNCHANGED final
  /\ answers' = Append(answers, Answer(0, "ready", action))
  /\ UNCHANGED <<runner, dry_run, matches, i, launched, exits,
                 tmp_files, tmp_created, presented, outcomes, aborted>>
  /\ UNCHANGED outsideExec

\* Faulty variant: a non-zero result is reported and the loop goes on.
StandardRunStep_KeepsGoing(code) ==
  /\ runner = "standard" /\ pc = "loop" /\ i <= Len(matches)
  /\ presented' = Append(presented, i)
  /\ launched' = Append(launched, i)
  /\ exits' = Append(exits, code)
  /\ outcomes' = IF code = 0 THEN outcomes ELSE Append(outcomes, Line(i, "Failed"))
  /\ i' = i + 1
  /\ UNCHANGED <<runner, dry_run, matches, choices, tmp_files, tmp_created,
                 final, aborted, harvest_saved, answers, pc>>
  /\ UNCHANGED outsideExec

\* One step of the loop: announce, subprocess.call, and on a non-zero result
\* print the failure line and return.
StandardRunStep(code) ==
  /\ runner = "standard" /\ pc = "loop" /\ i <= Len(matches)
  /\ presented' = Append(presented, i)
  /\ launched' = Append(launched, i)
  /\ exits' = Append(exits, code)
  /\ IF code = 0
       THEN /\ i' = i + 1
            /\ UNCHANGED <<pc, outcomes>>
       ELSE /\ outcomes' = Append(outcomes, Line(i, "Failed"))
            /\ pc' = "done"
            /\ UNCHANGED i
  /\ UNCHANGED <<runner, dry_run, matches, choices, tmp_files, tmp_created,
                 final, aborted, harvest_saved, answers>>
  /\ UNCHANGED outsideExec

StandardLoopEnd ==
  /\ runner = "standard" /\ pc = "loop" /\ i > Len(matches)
  /\ pc' = "done" /\ final' = "Deployment Complete!"
  /\ UNCHANGED <<runner, dry_run, matches, i, choices, launched, exits,
                 tmp_files, tmp_created, presented, outcomes, aborted, harvest_saved, answers>>
  /\ UNCHANGED outsideExec

deploy_standard ==
  \/ StandardNoSteps
  \/ StandardPreview
  \/ \E action \in ReadyChoices : StandardReady(action)
  \/ \E code \in ExitCodes : StandardRunStep(code)
  \/ StandardLoopEnd

\* ---- deploy_project, standard strategy: pre-flight and plan ---------------

\* config.get("grade", "B"): the three grades, and any other value.
Grades == {"A", "B", "C", "D"}

LockNames == {"pnpm-lock.yaml", "bun.lockb", "yarn.lock", "package-lock.json"}

\* How `kubectl cluster-info` ends: exit 0, CalledProcessError,
\* FileNotFoundError, TimeoutExpired.
ClusterInfo == {"ok", "error", "not_found", "timeout"}

\* shutil.which("docker"), shutil.which("kubectl"), kubectl cluster-info,
\* health["tools"]["npm"], health["integrations"]["Supabase Linked"].
ToolStates ==
  {tl \in [docker : BOOLEAN, kubectl : BOOLEAN, cluster : ClusterInfo,
           npm : BOOLEAN, supabase : BOOLEAN] :
     ~tl.kubectl => tl.cluster = "not_found"}

\* Faulty variant: a probe that timed out counts as a live cluster.
check_k8s_connection_TimeoutIsUp(tl) == tl.cluster \in {"ok", "timeout"}

check_k8s_connection(tl) == tl.cluster = "ok"

Step(title, c) == [title |-> title, cmd |-> c]

\* The warnings of the pre-flight checks, in the order they are appended.
PreflightIssues(g, tl) ==
  (IF g = "B" /\ ~tl.docker THEN <<"Docker not installed">> ELSE <<>>)
  \o (IF g = "A"
        THEN IF ~tl.kubectl THEN <<"Kubectl not installed">>
             ELSE IF ~check_k8s_connection(tl)
               THEN <<"Kubernetes Cluster Unreachable">>
               ELSE <<>>
        ELSE <<>>)
  \o (IF ~tl.npm THEN <<"NPM not installed">> ELSE <<>>)
  \o (IF g \in {"B", "A"} /\ ~tl.supabase
        THEN <<"Supabase Project probably not linked">>
        ELSE <<>>)

\* audit_cmd = None
NoAudit == "None"

\* Faulty variant: package-lock.json is looked for first.
audit_cmd_AnyNpmLock(l) ==
  IF "package-lock.json" \in l THEN "npm audit"
  ELSE IF "pnpm-lock.yaml" \in l THEN "pnpm audit"
  ELSE IF "bun.lockb" \in l THEN NoAudit
  ELSE IF "yarn.lock" \in l THEN "yarn audit"
  ELSE "npm audit"

\* The if/elif chain over the lockfiles of the working directory.
audit_cmd(l) ==
  IF "pnpm-lock.yaml" \in l THEN "pnpm audit"
  ELSE IF "bun.lockb" \in l
    THEN IF "package-lock.json" \in l THEN "npm audit" ELSE NoAudit
  ELSE IF "yarn.lock" \in l THEN "yarn audit"
  ELSE "npm audit"

\* Faulty variant: the lockfile is generated whether or not package-lock.json
\* is there.
LockfileStep_WithoutNpmTest(l) ==
  IF l \cap {"pnpm-lock.yaml", "bun.lockb", "yarn.lock"} = {}
    THEN <<Step("Generating Lockfile (Required for Audit)", "npm i --package-lock-only")>>
    ELSE <<>>

\* The "Generating Lockfile" step: only on the npm default branch, and only
\* without a package-lock.json.
LockfileStep(l) ==
  IF l \cap {"pnpm-lock.yaml", "bun.lockb", "yarn.lock", "package-lock.json"} = {}
    THEN <<Step("Generating Lockfile (Required for Audit)", "npm i --package-lock-only")>>
    ELSE <<>>

AuditStep(l) ==
  IF audit_cmd(l) # NoAudit THEN <<Step("Security Audit", audit_cmd(l))>> ELSE <<>>

\* Faulty variant: the manifests are applied before the audit.
GradeSteps_AuditAfterApply(g, l) ==
  CASE g = "C" ->
         <<Step("Building Project", "npm run build"),
           Step("Launching Background Service", "screen -dmS project npm run start"),
           Step("Start Dev Server", "npm run dev")>>
    [] g = "B" ->
         <<Step("Running Unit Tests", "npm test"),
           Step("Building Containers", "docker compose build"),
           Step("Deploying Services", "docker compose up -d"),
           Step("Pushing DB Schema", "npx supabase db push")>>
    [] g = "A" ->
         <<Step("Running E2E Tests", "npm run test:e2e"),
           Step("Applying K8s Manifests", "kubectl apply -f k8s/")>>
         \o LockfileStep(l) \o AuditStep(l)
         \o <<Step("Migrating DB", "npx supabase migration up")>>
    [] OTHER -> <<>>

\* The steps of a grade; any other grade leaves the list empty.
GradeSteps(g, l) ==
  CASE g = "C" ->
         <<Step("Building Project", "npm run build"),
           Step("Launching Background Service", "screen -dmS project npm run start"),
           Step("Start Dev Server", "npm run dev")>>
    [] g = "B" ->
         <<Step("Running Unit Tests", "npm test"),
           Step("Building Containers", "docker compose build"),
           Step("Deploying Services", "docker compose up -d"),
           Step("Pushing DB Schema", "npx supabase db push")>>
    [] g = "A" ->
         <<Step("Running E2E Tests", "npm run test:e2e")>>
         \o LockfileStep(l) \o AuditStep(l)
         \o <<Step("Applying K8s Manifests", "kubectl apply -f k8s/"),
              Step("Migrating DB", "npx supabase migration up")>>
    [] OTHER -> <<>>

\* "Running Pre-Flight Checks...": the warnings are listed and "Continue
\* anyway?" asked, or "Checks Passed" printed.
DeployPreflight ==
  /\ ppc = "begin"
  /\ issues' = PreflightIssues(grade, tools)
  /\ ppc' = IF issues' # <<>> THEN "ask_continue" ELSE "resolve"
  /\ UNCHANGED <<grade, lockfiles, tools, steps>>
  /\ UNCHANGED <<execVars, libVars, docVars, exit_status>>

\* Faulty variant: a warning ends the deployment whatever the answer.
DeployProceed_StopsOnWarnings(a) ==
  /\ ppc = "ask_continue"
  /\ answers' = Append(answers, Answer(0, "preflight", a))
  /\ ppc' = "done" /\ pc' = "done" /\ final' = "Aborted."
  /\ UNCHANGED <<grade, lockfiles, tools, issues, steps>>
  /\ UNCHANGED <<runner, dry_run, matches, i, choices, launched, exits,
                 tmp_files, tmp_created, presented, outcomes, aborted,
                 harvest_saved>>
  /\ UNCHANGED <<libVars, docVars, exit_status>>

\* The answer to "Continue anyway?" (default n): anything but y prints
\* "Aborted." and returns.
DeployProceed(a) ==
  /\ ppc = "ask_continue"
  /\ answers' = Append(answers, Answer(0, "preflight", a))
  /\ IF a = "y"
       THEN ppc' = "resolve" /\ UNCHANGED <<pc, final>>
       ELSE ppc' = "done" /\ pc' = "done" /\ final' = "Aborted."
  /\ UNCHANGED <<grade, lockfiles, tools, issues, steps>>
  /\ UNCHANGED <<runner, dry_run, matches, i, choices, launched, exits,
                 tmp_files, tmp_created, presented, outcomes, aborted,
                 harvest_saved>>
  /\ UNCHANGED <<libVars, docVars, exit_status>>

\* The steps of the grade are built; the preview and the loop take them
\* from here.
DeployResolve ==
  /\ ppc = "resolve"
  /\ steps' = GradeSteps(grade, lockfiles)
  /\ matches' = [k \in DOMAIN steps' |-> steps'[k].cmd]
  /\ ppc' = "resolved" /\ pc' = "begin"
  /\ UNCHANGED <<grade, lockfiles, tools, issues>>
  /\ UNCHANGED <<runner, dry_run, i, choices, launched, exits, tmp_files,
                 tmp_created, presented, outcomes, final, aborted,
                 harvest_saved, answers>>
  /\ UNCHANGED <<libVars, docVars, exit_status>>

deploy_plan ==
  \/ DeployPreflight
  \/ \E a \in YesNo : DeployProceed(a)
  \/ DeployResolve

\* ---- main ----------------------------------------------------------------

\* The routed function has returned: main falls off its end and the
\* interpreter exits with status 0.
MainExit ==
  /\ pc = "done" /\ exit_status = -1
  /\ exit_status' = 0
  /\ UNCHANGED <<execVars, libVars, planVars, docVars>>

\* ---- str methods used on documents --------------------------------------

\* Strings are sequences of one-character strings.

\* str.strip(chars): leading and trailing characters of chars are dropped.
strip_chars(s, chars) ==
  LET kept == {k \in DOMAIN s : s[k] \notin chars}
      Min(S) == CHOOSE k \in S : \A n \in S : k <= n
      Max(S) == CHOOSE k \in S : \A n \in S : k >= n
  IN IF kept = {} THEN <<>> ELSE SubSeq(s, Min(kept), Max(kept))

\* str.strip(): whitespace is dropped.
strip(s) == strip_chars(s, {" ", "\n"})

\* str.startswith(prefix)
startswith(s, prefix) ==
  Len(s) >= Len(prefix) /\ SubSeq(s, 1, Len(prefix)) = prefix

\* str.find(sep), 1-based; 0 when sep does not occur.
find(s, sep) ==
  LET hits == {k \in 1..(Len(s) - Len(sep) + 1) : SubSeq(s, k, k + Len(sep) - 1) = sep}
  IN IF hits = {} THEN 0 ELSE CHOOSE k \in hits : \A n \in hits : k <= n

\* str.split(sep, maxsplit): cut at the leftmost occurrences of sep, at most
\* maxsplit times; a negative maxsplit is no limit.
RECURSIVE split(_, _, _)
split(s, sep, maxsplit) ==
  LET k == find(s, sep)
  IN IF maxsplit = 0 \/ k = 0 THEN <<s>>
     ELSE <<SubSeq(s, 1, k - 1)>>
          \o split(SubSeq(s, k + Len(sep), Len(s)), sep, maxsplit - 1)

\* ---- parse_frontmatter ---------------------------------------------------

Delimiter == <<"-", "-", "-">>

\* What a call of parse_frontmatter ends with: kind "None", "dict" (the
\* mapping of the native fallback), "yaml" (whatever yaml.safe_load made of
\* the text) or "raised"; "unset" before the call.
Returned(kind, pairs, text) == [kind |-> kind, pairs |-> pairs, text |-> text]

None == Returned("None", {}, <<>>)

\* The native fallback: every line with a colon sets meta[key] = val, a later
\* line replacing an earlier one with the same key.
\* A value "[a, b]" is a list of unquoted items, anything else an unquoted
\* string.
RECURSIVE NativeMeta(_, _)
NativeMeta(lines, pairs) ==
  IF lines = <<>> THEN pairs
  ELSE LET line == Head(lines)
           kv == split(line, <<":">>, 1)
           key == strip(kv[1])
           val == strip(kv[2])
           Unquote(v) == strip_chars(strip_chars(v, {"'"}), {"\""})
           items == split(SubSeq(val, 2, Len(val) - 1), <<",">>, -1)
           value ==
             IF startswith(val, <<"[">>) /\ val[Len(val)] = "]"
               THEN [list |-> TRUE,
                     items |-> [n \in DOMAIN items |-> Unquote(strip(items[n]))]]
               ELSE [list |-> FALSE, items |-> <<Unquote(val)>>]
       IN IF find(line, <<":">>) # 0
            THEN NativeMeta(Tail(lines), {q \in pairs : q[1] # key} \cup {<<key, value>>})
            ELSE NativeMeta(Tail(lines), pairs)

\* The part of parse_frontmatter after the split.
MetaOfParts(parts, mode) ==
  LET yaml_content == strip(parts[2])
  IN CASE mode = "fallback" ->
            Returned("dict", NativeMeta(split(yaml_content, <<"\n">>, -1), {}), <<>>)
       [] mode = "safe_load" ->
            IF yaml_content = <<>> THEN None ELSE Returned("yaml", {}, yaml_content)
       [] OTHER -> None          \* except Exception: return None

\* Faulty variant: the test on the number of parts is missing.
parse_frontmatter_NoPartsTest(c, mode) ==
  LET stripped == strip(c)
  IN IF ~startswith(stripped, Delimiter) THEN None
     ELSE LET parts == split(stripped, Delimiter, 2)
          IN IF Len(parts) < 2 THEN Returned("raised", {}, <<>>)
             ELSE MetaOfParts(parts, mode)

parse_frontmatter(c, mode) ==
  LET stripped == strip(c)
  IN IF ~startswith(stripped, Delimiter) THEN None
     ELSE LET parts == split(stripped, Delimiter, 2)
          IN IF Len(parts) < 3 THEN None
             ELSE MetaOfParts(parts, mode)

ParseFrontmatter ==
  /\ task = "frontmatter" /\ dpc = "ready"
  /\ meta' = parse_frontmatter(content, yaml_mode)
  /\ dpc' = "done"
  /\ UNCHANGED <<task, content, yaml_mode, document, blocks, cmd_block, context, rendered>>
  /\ UNCHANGED <<execVars, libVars, planVars, exit_status>>

\* ---- block extraction ----------------------------------------------------

\* A file is a string of tokens: the marker comment, the opening fence
\* ```bash, the bare fence ```, a newline, or the text of a line.
Marker == "<!-- JAAVIS:EXEC -->"

Fence == "[fence]"

BashFence == "[fence]bash"

\* A part of a file: lines of prose, a fenced block without marker, a marker
\* followed by prose, or the marker followed by a fenced block with the
\* lines of body (kind "block").
Part(kind, body) == [kind |-> kind, body |-> body]

LinesOf(part) ==
  CASE part.kind = "text" -> part.body
    [] part.kind = "fenced" -> <<BashFence>> \o part.body \o <<Fence>>
    [] part.kind = "marker" -> <<Marker>> \o part.body
    [] part.kind = "block" -> <<Marker, BashFence>> \o part.body \o <<Fence>>

\* "\n".join(lines); an empty line adds no token of its own.
RECURSIVE Join(_)
Join(lines) ==
  IF lines = <<>> THEN <<>>
  ELSE (IF Head(lines) = "" THEN <<>> ELSE <<Head(lines)>>)
       \o (IF Len(lines) > 1 THEN <<"\n">> \o Join(Tail(lines)) ELSE <<>>)

\* The text of the file: every line of every part, each ended by a newline.
RECURSIVE FileText(_)
FileText(parts) ==
  IF parts = <<>> THEN <<>>
  ELSE Join(LinesOf(Head(parts))) \o <<"\n">> \o FileText(Tail(parts))

\* One attempt of the pattern at the marker at position m: the marker,
\* whitespace, ```bash and a newline, then the shortest text (the group)
\* that is followed by a newline and ```.  The result is <<first position
\* of the group, position of the newline that ends it>>, or <<>> when the
\* pattern does not match here.
MatchAt(text, m) ==
  LET after == {k \in (m + 1)..Len(text) : text[k] # "\n"}
      b == CHOOSE k \in after : \A n \in after : k <= n
      ends == {e \in (b + 2)..(Len(text) - 1) :
                 text[e] = "\n" /\ text[e + 1] \in {Fence, BashFence}}
  IN IF after = {} THEN <<>>
     ELSE IF text[b] # BashFence \/ b + 1 > Len(text) \/ text[b + 1] # "\n" THEN <<>>
     ELSE IF ends = {} THEN <<>>
     ELSE <<b + 2, CHOOSE e \in ends : \A n \in ends : e <= n>>

\* re.findall(pattern, content, re.DOTALL): the leftmost match from position
\* from on, its group, and on from behind the match.
RECURSIVE findall(_, _)
findall(text, from) ==
  LET hits == {m \in from..Len(text) : text[m] = Marker /\ MatchAt(text, m) # <<>>}
      m == CHOOSE k \in hits : \A n \in hits : k <= n
      g == MatchAt(text, m)
  IN IF hits = {} THEN <<>>
     ELSE <<SubSeq(text, g[1], g[2] - 1)>> \o findall(text, g[2] + 2)

ExtractBlocks ==
  /\ task = "extract" /\ dpc = "ready"
  /\ blocks' = findall(FileText(document), 1)
  /\ dpc' = "done"
  /\ UNCHANGED <<task, content, yaml_mode, meta, document, cmd_block, context, rendered>>
  /\ UNCHANGED <<execVars, libVars, planVars, exit_status>>

\* ---- templating -----------------------------------------------------------

\* A piece of a block body: a literal character, or the placeholder of a key.
Piece(ph, str) == [ph |-> ph, s |-> str]

\* Faulty variant: the braces are missing from the pattern.
Placeholder_BareKey(key) == <<key>>

\* f"{{{{{key}}}}}"
Placeholder(key) == <<"{", "{", key, "}", "}">>

\* The body as the string it is.
RECURSIVE BodyText(_)
BodyText(pieces) ==
  IF pieces = <<>> THEN <<>>
  ELSE (IF Head(pieces).ph THEN Placeholder(Head(pieces).s) ELSE <<Head(pieces).s>>)
       \o BodyText(Tail(pieces))

\* Faulty variant: only the first occurrence is replaced.
replace_FirstOnly(s, old, new) ==
  LET k == find(s, old)
  IN IF k = 0 THEN s
     ELSE SubSeq(s, 1, k - 1) \o new \o SubSeq(s, k + Len(old), Len(s))

\* str.replace(old, new): every occurrence, leftmost first, none overlapping.
RECURSIVE replace(_, _, _)
replace(s, old, new) ==
  LET k == find(s, old)
  IN IF k = 0 THEN s
     ELSE SubSeq(s, 1, k - 1) \o new \o replace(SubSeq(s, k + Len(old), Len(s)), old, new)

\* `if context: for key, val in context.items(): cmd_block = cmd_block.replace(...)`
RECURSIVE Substitute(_, _)
Substitute(text, items) ==
  IF items = <<>> THEN text
  ELSE Substitute(replace(text, Placeholder(Head(items).key), Head(items).val), Tail(items))

ApplyTemplate ==
  /\ task = "template" /\ dpc = "ready"
  /\ rendered' = Substitute(BodyText(cmd_block), context)
  /\ dpc' = "done"
  /\ UNCHANGED <<task, content, yaml_mode, meta, document, blocks, cmd_block, context>>
  /\ UNCHANGED <<execVars, libVars, planVars, exit_status>>

\* The substitution applied once more, to its own result.
ApplyTemplateAgain ==
  /\ task = "template" /\ dpc = "done"
  /\ rendered' = Substitute(rendered, context)
  /\ dpc' = "again"
  /\ UNCHANGED <<task, content, yaml_mode, meta, document, blocks, cmd_block, context>>
  /\ UNCHANGED <<execVars, libVars, planVars, exit_status>>

\* ---- what is at rest while another function is exercised -----------------

PlanIdle ==
  /\ grade = "" /\ lockfiles = {} /\ tools = <<>> /\ issues = <<>>
  /\ steps = <<>> /\ ppc = "idle"

DocIdle ==
  /\ task = "none" /\ dpc = "idle" /\ content = <<>> /\ yaml_mode = "none"
  /\ meta = Returned("unset", {}, <<>>) /\ document = <<>> /\ blocks = <<>> /\ cmd_block = <<>>
  /\ context = <<>> /\ rendered = <<>>

\* ---- specification of the execution loops --------------------------------

ExecInputs ==
  \E r \in {"apply", "harvested", "standard"} :
    \E d \in BOOLEAN :
      \E m \in SeqsUpTo(BlockBodies, MaxBlocks) :
        /\ d => r = "apply"
        /\ r = "standard" => Range(m) \subseteq {"cmd"}
        /\ ExecStart(r, d, m)

NextExec == apply_skill \/ deploy_harvested \/ deploy_standard \/ MainExit



(* ---------------------------------------------------------------------- *)
(* Libraries: the persisted configuration, the directories and their git  *)
(* state, and the functions that reconcile or manage them                  *)
(* ---------------------------------------------------------------------- *)
Names == {"programmer", "work", "home"}

\* sorted() of the persona keys other than "programmer"
NameOrder == <<"", "home", "work">>

NoUrl == "none"
Urls == {"url"}

DEFAULT_LIBRARY_PATH == "library"

\* os.path.join(JAAVIS_HOME, f"library_{name}")
HomePath(n) ==
  CASE n = "" -> "library_"
    [] n = "work" -> "library_work"
    [] n = "home" -> "library_home"
    [] OTHER -> "library_programmer"

Paths == {DEFAULT_LIBRARY_PATH, "library_", "library_work", "library_home",
          "library_programmer", "elsewhere"}

Rec(path, url, locked) == [path |-> path, remote_url |-> url, locked |-> locked]

\* A directory: whether it exists, has .git, has uncommitted changes, has a
\* remote named origin, and how many stash entries it holds.
Dir(e, g, d, o, n) == [exists |-> e, git |-> g, dirty |-> d, origin |-> o, stash |-> n]

Missing == Dir(FALSE, FALSE, FALSE, FALSE, 0)
Plain == Dir(TRUE, FALSE, FALSE, FALSE, 0)
Cloned == Dir(TRUE, TRUE, FALSE, TRUE, 0)

DirStates == {Missing, Plain, Cloned,
              Dir(TRUE, TRUE, TRUE, TRUE, 0),
              Dir(TRUE, TRUE, FALSE, FALSE, 0)}

Edit(op, who, new) == [op |-> op, who |-> who, new |-> new]
NoEdit == Edit("none", "", "")

\* What the loop head examines of a record and its directory.
SyncState(d, rec) ==
  [exists |-> d.exists, git |-> d.git, dirty |-> d.dirty,
   url |-> rec.remote_url # NoUrl]

Git(lib, op, out) == [lib |-> lib, op |-> op, out |-> out]

\* How a subprocess.run of git can end: exit 0, exit non-zero, or an
\* exception raised by the call itself.
Outs == {"ok", "fail", "raise"}

\* A command run with check=True raises on a non-zero exit, and where it is
\* run every exception is handled alike: it succeeds or it fails.
CheckedOuts == {"ok", "fail"}

\* `git remote`, whose non-zero exit and whose exception both leave
\* has_remote False.
ProbeOuts == {"ok", "raise"}

\* A pull can also exit non-zero with "no tracking information" on stderr.
PullOuts == Outs \cup {"no_tracking"}

OutsOf(op) == IF op = "pull --rebase" THEN PullOuts ELSE Outs

\* load_config, then `personas = config.get("personas", {})` and the
\* default record for "programmer".
LoadPersonas ==
  IF "programmer" \in DOMAIN disk.personas
    THEN disk.personas
    ELSE [n \in DOMAIN disk.personas \cup {"programmer"} |->
            IF n = "programmer" THEN Rec(DEFAULT_LIBRARY_PATH, NoUrl, FALSE)
            ELSE disk.personas[n]]

\* ["programmer"] + sorted(the other keys)
persona_keys(ps) ==
  <<"programmer">> \o SelectSeq(NameOrder, LAMBDA n : n \in DOMAIN ps)

\* save_config(config): the local dict reaches the file only when it is the
\* one `config` holds.
Saved(ps) == IF attached THEN [disk EXCEPT !.personas = ps] ELSE disk

LibIdle ==
  /\ cmd = "idle" /\ spc = "idle" /\ personas = <<>> /\ attached = FALSE
  /\ choice_idx = 0 /\ targets = <<>> /\ lib_path = "" /\ t = 0 /\ commands = <<>> /\ has_remote = FALSE
  /\ needs_pop = FALSE /\ config_changed = FALSE /\ visited = <<>>
  /\ sync_state = <<>> /\ mk_failed = {}
  /\ git_log = <<>> /\ crashed = FALSE

\* main() routes one command per process: a reconciliation function starts in
\* a fresh process, before any other function has run.
CanStart == cmd = "idle" /\ edits = 0

name == targets[t]
p_data == personas[name]
path == p_data.path

\* ---- sync_all_personas ---------------------------------------------------

\* Menu and target selection: choice 0 is "Sync All", choice k the k-th key.
SyncSelect(choice) ==
  /\ CanStart
  /\ choice \in 0..Len(persona_keys(LoadPersonas))
  /\ cmd' = "sync" /\ spc' = "next"
  /\ personas' = LoadPersonas
  /\ attached' = disk.has_map
  /\ choice_idx' = choice /\ lib_path' = ""
  /\ targets' = IF choice = 0 THEN persona_keys(LoadPersonas)
                ELSE <<persona_keys(LoadPersonas)[choice]>>
  /\ t' = 1 /\ commands' = <<>> /\ has_remote' = FALSE /\ needs_pop' = FALSE
  /\ config_changed' = FALSE /\ visited' = <<>> /\ git_log' = <<>>
  /\ crashed' = FALSE
  /\ sync_state' = <<>> /\ mk_failed' = {}
  /\ UNCHANGED <<disk, fs, edits, last_edit>>
  /\ UNCHANGED outsideLib

\* Loop head, library with .git: get_git_status, then the command list
\* stash / pull --rebase / stash pop.
SyncTracked ==
  /\ cmd = "sync" /\ spc = "next" /\ t <= Len(targets)
  /\ fs[path].exists /\ fs[path].git
  /\ visited' = Append(visited, name)
  /\ sync_state' = Append(sync_state, SyncState(fs[path], p_data))
  /\ commands' = IF fs[path].dirty
                   THEN <<"stash", "pull --rebase", "stash pop">>
                   ELSE <<"pull --rebase">>
  /\ spc' = "cmds"
  /\ UNCHANGED <<disk, fs, cmd, personas, attached, choice_idx, targets, lib_path, t, has_remote,
                 needs_pop, config_changed, git_log, crashed, mk_failed,
                 edits, last_edit>>
  /\ UNCHANGED outsideLib

\* The effect of a finished git command on the directory.
GitEffect(d, op, out) ==
  IF out # "ok" THEN d
  ELSE CASE op = "stash" -> [d EXCEPT !.dirty = FALSE, !.stash = @ + 1]
         [] op = "stash pop" -> [d EXCEPT !.dirty = TRUE, !.stash = @ - 1]
         [] op = "init" -> [d EXCEPT !.git = TRUE]
         [] op = "remote add" -> [d EXCEPT !.origin = TRUE]
         [] op = "commit" -> [d EXCEPT !.dirty = FALSE]
         [] op = "clone" -> Cloned
         [] OTHER -> d

\* The command loop with the upstream fallback taken after any failed pull.
SyncRunCmd_RetriesAnyFailure(out, su, out2) ==
  /\ cmd = "sync" /\ spc = "cmds" /\ commands # <<>>
  /\ LET op == Head(commands)
         fallback == op = "pull --rebase" /\ out \in {"no_tracking", "fail"}
         entries == IF ~fallback THEN <<Git(name, op, out)>>
                    ELSE IF su = "raise"
                      THEN <<Git(name, op, out), Git(name, "set-upstream", su)>>
                      ELSE <<Git(name, op, out), Git(name, "set-upstream", su),
                             Git(name, op, out2)>>
         res == IF ~fallback THEN out ELSE IF su = "raise" THEN su ELSE out2
     IN /\ out \in OutsOf(op)
        /\ IF fallback THEN su \in Outs /\ out2 \in OutsOf(op) /\ (su = "raise" => out2 = "ok")
                       ELSE su = "ok" /\ out2 = "ok"
        /\ git_log' = git_log \o entries
        /\ fs' = [fs EXCEPT ![path] = GitEffect(@, op, res)]
        /\ IF res = "raise"
             THEN /\ crashed' = TRUE /\ spc' = "crashed"
                  /\ UNCHANGED <<commands, t>>
             ELSE IF res # "ok"
               THEN /\ commands' = <<>> /\ t' = t + 1 /\ spc' = "next"   \* break
                    /\ UNCHANGED crashed
               ELSE /\ commands' = Tail(commands)
                    /\ IF Tail(commands) = <<>>
                         THEN t' = t + 1 /\ spc' = "next"
                         ELSE UNCHANGED <<t, spc>>
                    /\ UNCHANGED crashed
  /\ UNCHANGED <<disk, cmd, personas, attached, choice_idx, targets, lib_path, has_remote,
                 needs_pop, config_changed, visited, sync_state, mk_failed,
                 edits, last_edit>>
  /\ UNCHANGED outsideLib

\* One turn of `for cmd in commands`: run the command; a pull that fails for
\* want of tracking information sets the upstream and is run once more; a
\* non-zero result ends the record, an exception ends the function.
SyncRunCmd(out, su, out2) ==
  /\ cmd = "sync" /\ spc = "cmds" /\ commands # <<>>
  /\ LET op == Head(commands)
         fallback == op = "pull --rebase" /\ out = "no_tracking"
         entries == IF ~fallback THEN <<Git(name, op, out)>>
                    ELSE IF su = "raise"
                      THEN <<Git(name, op, out), Git(name, "set-upstream", su)>>
                      ELSE <<Git(name, op, out), Git(name, "set-upstream", su),
                             Git(name, op, out2)>>
         res == IF ~fallback THEN out ELSE IF su = "raise" THEN su ELSE out2
     IN /\ out \in OutsOf(op)
        /\ IF fallback THEN su \in Outs /\ out2 \in OutsOf(op) /\ (su = "raise" => out2 = "ok")
                       ELSE su = "ok" /\ out2 = "ok"
        /\ git_log' = git_log \o entries
        /\ fs' = [fs EXCEPT ![path] = GitEffect(@, op, res)]
        /\ IF res = "raise"
             THEN /\ crashed' = TRUE /\ spc' = "crashed"
                  /\ UNCHANGED <<commands, t>>
             ELSE IF res # "ok"
               THEN /\ commands' = <<>> /\ t' = t + 1 /\ spc' = "next"   \* break
                    /\ UNCHANGED crashed
               ELSE /\ commands' = Tail(commands)
                    /\ IF Tail(commands) = <<>>
                         THEN t' = t + 1 /\ spc' = "next"
                         ELSE UNCHANGED <<t, spc>>
                    /\ UNCHANGED crashed
  /\ UNCHANGED <<disk, cmd, personas, attached, choice_idx, targets, lib_path, has_remote,
                 needs_pop, config_changed, visited, sync_state, mk_failed,
                 edits, last_edit>>
  /\ UNCHANGED outsideLib


\* What the operator can type at a URL prompt.
UrlInputs == Urls \cup {""}

\* The checked commands that set up a repository, in the order run.
LinkOps == <<"init", "branch -M", "remote add">>

\* Log of a run of `ops` in which the first n_ok succeed and the next fails.
RunChecked(lib, ops, n_ok) ==
  [k \in 1..(IF n_ok < Len(ops) THEN n_ok + 1 ELSE Len(ops)) |->
     Git(lib, ops[k], IF k <= n_ok THEN "ok" ELSE "fail")]

RECURSIVE ApplyLog(_, _)
\* The directory after the logged commands.
ApplyLog(d, log) ==
  IF log = <<>> THEN d
  ELSE ApplyLog(GitEffect(d, Head(log).op, Head(log).out), Tail(log))

\* Loop head, directory without .git: "Initialize and link to remote?"
SyncUntracked ==
  /\ cmd = "sync" /\ spc = "next" /\ t <= Len(targets)
  /\ fs[path].exists /\ ~fs[path].git
  /\ visited' = Append(visited, name)
  /\ sync_state' = Append(sync_state, SyncState(fs[path], p_data))
  /\ spc' = "ask_link"
  /\ UNCHANGED <<disk, fs, cmd, personas, attached, choice_idx, targets, lib_path, t, commands,
                 has_remote, needs_pop, config_changed, git_log, crashed,
                 mk_failed,
                 edits, last_edit>>
  /\ UNCHANGED outsideLib

\* The answers to "Initialize and link to remote?" and "Remote Git URL:".
\* With a URL: init, branch -M main, remote add (checked), then the record
\* gets the URL and an unchecked pull follows; any exception is caught.
SyncLink(yes, url, n_ok, pull_out) ==
  /\ cmd = "sync" /\ spc = "ask_link"
  /\ IF yes /\ url # ""
       THEN LET log == RunChecked(name, LinkOps, n_ok)
                linked == n_ok = Len(LinkOps)
            IN /\ git_log' = git_log \o
                               (IF linked
                                  THEN log \o <<Git(name, "pull origin main", pull_out)>>
                                  ELSE log)
               /\ ~linked => pull_out = "ok"
               /\ fs' = [fs EXCEPT ![path] = ApplyLog(@, log)]
               /\ personas' = IF linked
                                THEN [personas EXCEPT ![name].remote_url = url]
                                ELSE personas
               /\ config_changed' = (config_changed \/ linked)
       ELSE /\ n_ok = 0 /\ pull_out = "ok" /\ (~yes => url = "")
            /\ UNCHANGED <<git_log, fs, personas, config_changed>>
  /\ t' = t + 1 /\ spc' = "next"
  /\ UNCHANGED <<disk, cmd, attached, choice_idx, targets, lib_path, commands, has_remote,
                 needs_pop, visited, crashed, sync_state, mk_failed,
                 edits, last_edit>>
  /\ UNCHANGED outsideLib

\* The clone recovery followed by a pull of the fresh clone.
SyncClone_ThenPulls(mk, out) ==
  /\ cmd = "sync" /\ spc = "next" /\ t <= Len(targets)
  /\ ~fs[path].exists /\ p_data.remote_url # NoUrl
  /\ visited' = Append(visited, name)
  /\ sync_state' = Append(sync_state, SyncState(fs[path], p_data))
  /\ IF mk = "raise"
       THEN out = "ok" /\ UNCHANGED <<git_log, fs>>
       ELSE /\ git_log' = git_log \o <<Git(name, "clone", out),
                                       Git(name, "pull --rebase", out)>>
            /\ fs' = [fs EXCEPT ![path] = GitEffect(@, "clone", out)]
  /\ mk_failed' = IF mk = "raise" THEN mk_failed \cup {name} ELSE mk_failed
  /\ t' = t + 1
  /\ UNCHANGED <<disk, cmd, spc, personas, attached, choice_idx, targets, lib_path, commands,
                 has_remote, needs_pop, config_changed, crashed, edits, last_edit>>
  /\ UNCHANGED outsideLib

\* Loop head, no directory but a remote_url: makedirs of the parent, then
\* clone; a non-zero clone and any exception are reported and the loop
\* goes on.
SyncClone(mk, out) ==
  /\ cmd = "sync" /\ spc = "next" /\ t <= Len(targets)
  /\ ~fs[path].exists /\ p_data.remote_url # NoUrl
  /\ visited' = Append(visited, name)
  /\ sync_state' = Append(sync_state, SyncState(fs[path], p_data))
  /\ IF mk = "raise"
       THEN out = "ok" /\ UNCHANGED <<git_log, fs>>
       ELSE /\ git_log' = Append(git_log, Git(name, "clone", out))
            /\ fs' = [fs EXCEPT ![path] = GitEffect(@, "clone", out)]
  /\ mk_failed' = IF mk = "raise" THEN mk_failed \cup {name} ELSE mk_failed
  /\ t' = t + 1
  /\ UNCHANGED <<disk, cmd, spc, personas, attached, choice_idx, targets, lib_path, commands,
                 has_remote, needs_pop, config_changed, crashed, edits, last_edit>>
  /\ UNCHANGED outsideLib

\* Loop head, no directory and no remote_url: "Clone from a URL?"
SyncMissing ==
  /\ cmd = "sync" /\ spc = "next" /\ t <= Len(targets)
  /\ ~fs[path].exists /\ p_data.remote_url = NoUrl
  /\ visited' = Append(visited, name)
  /\ sync_state' = Append(sync_state, SyncState(fs[path], p_data))
  /\ spc' = "ask_clone"
  /\ UNCHANGED <<disk, fs, cmd, personas, attached, choice_idx, targets, lib_path, t, commands,
                 has_remote, needs_pop, config_changed, git_log, crashed,
                 mk_failed,
                 edits, last_edit>>
  /\ UNCHANGED outsideLib

\* Faulty variant: the clone is issued as soon as the operator answers y,
\* whether or not a URL was typed.
SyncCloneFrom_ClonesBlank(yes, url, mk, out) ==
  /\ cmd = "sync" /\ spc = "ask_clone"
  /\ IF yes /\ mk # "raise"
       THEN /\ git_log' = Append(git_log, Git(name, "clone", out))
            /\ fs' = [fs EXCEPT ![path] = GitEffect(@, "clone", out)]
            /\ personas' = IF out = "ok"
                             THEN [personas EXCEPT ![name].remote_url = url]
                             ELSE personas
            /\ config_changed' = (config_changed \/ out = "ok")
       ELSE /\ out = "ok" /\ (~yes => url = "") /\ (~yes => mk = "ok")
            /\ UNCHANGED <<git_log, fs, personas, config_changed>>
  /\ mk_failed' = IF mk = "raise" THEN mk_failed \cup {name} ELSE mk_failed
  /\ t' = t + 1 /\ spc' = "next"
  /\ UNCHANGED <<disk, cmd, attached, choice_idx, targets, lib_path, commands, has_remote,
                 needs_pop, visited, crashed, sync_state,
                 edits, last_edit>>
  /\ UNCHANGED outsideLib

\* The answers to "Clone from a URL?" and "Remote Git URL:".  A clone that
\* exits 0 puts the URL in the record.
SyncCloneFrom(yes, url, mk, out) ==
  /\ cmd = "sync" /\ spc = "ask_clone"
  /\ IF yes /\ url # "" /\ mk # "raise"
       THEN /\ git_log' = Append(git_log, Git(name, "clone", out))
            /\ fs' = [fs EXCEPT ![path] = GitEffect(@, "clone", out)]
            /\ personas' = IF out = "ok"
                             THEN [personas EXCEPT ![name].remote_url = url]
                             ELSE personas
            /\ config_changed' = (config_changed \/ out = "ok")
       ELSE /\ out = "ok" /\ (~yes => url = "") /\ (~(yes /\ url # "") => mk = "ok")
            /\ UNCHANGED <<git_log, fs, personas, config_changed>>
  /\ mk_failed' = IF mk = "raise" THEN mk_failed \cup {name} ELSE mk_failed
  /\ t' = t + 1 /\ spc' = "next"
  /\ UNCHANGED <<disk, cmd, attached, choice_idx, targets, lib_path, commands, has_remote,
                 needs_pop, visited, crashed, sync_state,
                 edits, last_edit>>
  /\ UNCHANGED outsideLib

\* After the loop: `if config_changed: save_config(config)`.
SyncFinish ==
  /\ cmd = "sync" /\ spc = "next" /\ t > Len(targets)
  /\ disk' = IF config_changed THEN Saved(personas) ELSE disk
  /\ spc' = "done"
  /\ UNCHANGED <<fs, cmd, personas, attached, choice_idx, targets, lib_path, t, commands,
                 has_remote, needs_pop, config_changed, visited, git_log,
                 crashed, sync_state, mk_failed,
                 edits, last_edit>>
  /\ UNCHANGED outsideLib

MkOuts == {"ok", "raise"}

sync_all_personas ==
  \/ \E choice \in 0..Cardinality(Names) : SyncSelect(choice)
  \/ SyncTracked
  \/ \E out \in PullOuts, su \in Outs, out2 \in PullOuts : SyncRunCmd(out, su, out2)
  \/ SyncUntracked
  \/ \E yes \in BOOLEAN, url \in UrlInputs, n_ok \in 0..Len(LinkOps), pull_out \in Outs :
       SyncLink(yes, url, n_ok, pull_out)
  \/ \E mk \in MkOuts, out \in Outs : SyncClone(mk, out)
  \/ SyncMissing
  \/ \E yes \in BOOLEAN, url \in UrlInputs, mk \in MkOuts, out \in Outs :
       SyncCloneFrom(yes, url, mk, out)
  \/ SyncFinish


\* ---- push_all_personas ---------------------------------------------------

PushSelect(choice) ==
  /\ CanStart
  /\ choice \in 0..Len(persona_keys(LoadPersonas))
  /\ cmd' = "push" /\ spc' = "next"
  /\ personas' = LoadPersonas
  /\ attached' = disk.has_map
  /\ choice_idx' = choice /\ lib_path' = ""
  /\ targets' = IF choice = 0 THEN persona_keys(LoadPersonas)
                ELSE <<persona_keys(LoadPersonas)[choice]>>
  /\ t' = 1 /\ commands' = <<>> /\ has_remote' = FALSE /\ needs_pop' = FALSE
  /\ config_changed' = FALSE /\ visited' = <<>> /\ git_log' = <<>>
  /\ crashed' = FALSE
  /\ sync_state' = <<>> /\ mk_failed' = {}
  /\ UNCHANGED <<disk, fs, edits, last_edit>>
  /\ UNCHANGED outsideLib

\* `if not path or not os.path.exists(path): continue`
PushNoDirectory ==
  /\ cmd = "push" /\ spc = "next" /\ t <= Len(targets)
  /\ ~fs[path].exists
  /\ visited' = Append(visited, name)
  /\ sync_state' = Append(sync_state, SyncState(fs[path], p_data))
  /\ t' = t + 1
  /\ UNCHANGED <<disk, fs, cmd, spc, personas, attached, choice_idx, targets,
                 lib_path, commands, has_remote, needs_pop, config_changed,
                 git_log, crashed, mk_failed,
                 edits, last_edit>>
  /\ UNCHANGED outsideLib

\* Directory without .git: "Initialize Git?"
PushUntracked ==
  /\ cmd = "push" /\ spc = "next" /\ t <= Len(targets)
  /\ fs[path].exists /\ ~fs[path].git
  /\ visited' = Append(visited, name)
  /\ sync_state' = Append(sync_state, SyncState(fs[path], p_data))
  /\ spc' = "ask_init"
  /\ UNCHANGED <<disk, fs, cmd, personas, attached, choice_idx, targets,
                 lib_path, t, commands, has_remote, needs_pop, config_changed,
                 git_log, crashed, mk_failed,
                 edits, last_edit>>
  /\ UNCHANGED outsideLib

InitOps == <<"init", "branch -M">>

\* Answer to "Initialize Git?": init and branch -M main, checked; a failure
\* or a refusal moves on to the next record.
PushInit(yes, n_ok) ==
  /\ cmd = "push" /\ spc = "ask_init"
  /\ IF yes
       THEN LET log == RunChecked(name, InitOps, n_ok)
            IN /\ git_log' = git_log \o log
               /\ fs' = [fs EXCEPT ![path] = ApplyLog(@, log)]
               /\ IF n_ok = Len(InitOps)
                    THEN spc' = "remote" /\ UNCHANGED t
                    ELSE spc' = "next" /\ t' = t + 1
       ELSE /\ n_ok = 0
            /\ spc' = "next" /\ t' = t + 1
            /\ UNCHANGED <<git_log, fs>>
  /\ UNCHANGED <<disk, cmd, personas, attached, choice_idx, targets, lib_path,
                 commands, has_remote, needs_pop, config_changed, visited,
                 crashed, sync_state, mk_failed,
                 edits, last_edit>>
  /\ UNCHANGED outsideLib

\* Directory with .git: straight to the remote check.
PushTracked ==
  /\ cmd = "push" /\ spc = "next" /\ t <= Len(targets)
  /\ fs[path].exists /\ fs[path].git
  /\ visited' = Append(visited, name)
  /\ sync_state' = Append(sync_state, SyncState(fs[path], p_data))
  /\ spc' = "remote"
  /\ UNCHANGED <<disk, fs, cmd, personas, attached, choice_idx, targets,
                 lib_path, t, commands, has_remote, needs_pop, config_changed,
                 git_log, crashed, mk_failed,
                 edits, last_edit>>
  /\ UNCHANGED outsideLib

\* `git remote` inside try/except: has_remote when "origin" is listed.
PushCheckRemote(out) ==
  /\ cmd = "push" /\ spc = "remote"
  /\ git_log' = Append(git_log, Git(name, "remote", out))
  /\ has_remote' = (out = "ok" /\ fs[path].origin)
  /\ spc' = IF out = "ok" /\ fs[path].origin THEN "push" ELSE "ask_remote"
  /\ UNCHANGED <<disk, fs, cmd, personas, attached, choice_idx, targets,
                 lib_path, t, commands, needs_pop, config_changed, visited,
                 crashed, sync_state, mk_failed,
                 edits, last_edit>>
  /\ UNCHANGED outsideLib

\* Answers to "Add Remote URL?" and "URL:"; remote add is checked and its
\* failure caught.  Without a remote the record ends "Skipped (No Remote)".
PushAddRemote(yes, url, out) ==
  /\ cmd = "push" /\ spc = "ask_remote"
  /\ IF yes /\ url # ""
       THEN /\ git_log' = Append(git_log, Git(name, "remote add", out))
            /\ fs' = [fs EXCEPT ![path] = GitEffect(@, "remote add", out)]
            /\ personas' = IF out = "ok"
                             THEN [personas EXCEPT ![name].remote_url = url]
                             ELSE personas
            /\ config_changed' = (config_changed \/ out = "ok")
            /\ has_remote' = (out = "ok")
            /\ IF out = "ok" THEN spc' = "push" /\ UNCHANGED t
                             ELSE spc' = "next" /\ t' = t + 1
       ELSE /\ out = "ok" /\ (~yes => url = "")
            /\ spc' = "next" /\ t' = t + 1
            /\ UNCHANGED <<git_log, fs, personas, config_changed, has_remote>>
  /\ UNCHANGED <<disk, cmd, attached, choice_idx, targets, lib_path, commands,
                 needs_pop, visited, crashed, sync_state, mk_failed,
                 edits, last_edit>>
  /\ UNCHANGED outsideLib

\* Faulty variant: master is pushed whatever the push to main returned.
PushLog_AlwaysMaster(lib, add, commit, main, master) ==
  IF add # "ok" THEN <<Git(lib, "add", add)>>
  ELSE IF commit = "raise" THEN <<Git(lib, "add", add), Git(lib, "commit", commit)>>
  ELSE <<Git(lib, "add", add), Git(lib, "commit", commit),
         Git(lib, "push origin main", main),
         Git(lib, "push origin master", master)>>

\* What the push sequence logs: add (checked), commit (unchecked), push to
\* main, and push to master after a non-zero push to main; an exception
\* at any point is caught and ends the record.
PushLog(lib, add, commit, main, master) ==
  IF add # "ok" THEN <<Git(lib, "add", add)>>
  ELSE IF commit = "raise" THEN <<Git(lib, "add", add), Git(lib, "commit", commit)>>
  ELSE IF main = "ok" \/ main = "raise"
    THEN <<Git(lib, "add", add), Git(lib, "commit", commit),
           Git(lib, "push origin main", main)>>
    ELSE <<Git(lib, "add", add), Git(lib, "commit", commit),
           Git(lib, "push origin main", main),
           Git(lib, "push origin master", master)>>

\* `if has_remote:` the push sequence.  A commit on a clean tree exits 1.
PushRun(add, commit, main, master) ==
  /\ cmd = "push" /\ spc = "push"
  /\ commit = "ok" => fs[path].dirty
  /\ LET log == PushLog(name, add, commit, main, master)
     IN /\ Len(log) < 2 => commit = "fail"
        /\ Len(log) < 3 => main = "ok"
        /\ Len(log) < 4 => master = "ok"
        /\ git_log' = git_log \o log
        /\ fs' = [fs EXCEPT ![path] = ApplyLog(@, log)]
  /\ spc' = "next" /\ t' = t + 1
  /\ UNCHANGED <<disk, cmd, personas, attached, choice_idx, targets, lib_path,
                 commands, has_remote, needs_pop, config_changed, visited,
                 crashed, sync_state, mk_failed,
                 edits, last_edit>>
  /\ UNCHANGED outsideLib

PushFinish ==
  /\ cmd = "push" /\ spc = "next" /\ t > Len(targets)
  /\ disk' = IF config_changed THEN Saved(personas) ELSE disk
  /\ spc' = "done"
  /\ UNCHANGED <<fs, cmd, personas, attached, choice_idx, targets, lib_path,
                 t, commands, has_remote, needs_pop, config_changed, visited,
                 git_log, crashed, sync_state, mk_failed,
                 edits, last_edit>>
  /\ UNCHANGED outsideLib

push_all_personas ==
  \/ \E choice \in 0..Cardinality(Names) : PushSelect(choice)
  \/ PushNoDirectory
  \/ PushUntracked
  \/ \E yes \in BOOLEAN, n_ok \in 0..Len(InitOps) : PushInit(yes, n_ok)
  \/ PushTracked
  \/ \E out \in ProbeOuts : PushCheckRemote(out)
  \/ \E yes \in BOOLEAN, url \in UrlInputs, out \in CheckedOuts :
       PushAddRemote(yes, url, out)
  \/ \E add \in CheckedOuts, commit \in Outs, main \in Outs, master \in Outs :
       PushRun(add, commit, main, master)
  \/ PushFinish


\* ---- sync_skills ---------------------------------------------------------

\* get_active_library_path()
ActivePath ==
  IF disk.current_persona \in DOMAIN disk.personas
    THEN disk.personas[disk.current_persona].path
    ELSE DEFAULT_LIBRARY_PATH

SourceChoices == {"1", "2", "n"}

SkillsStart ==
  /\ CanStart
  /\ cmd' = "skills" /\ spc' = "begin"
  /\ lib_path' = ActivePath
  /\ personas' = <<>> /\ attached' = FALSE /\ choice_idx' = 0
  /\ targets' = <<>> /\ t' = 0 /\ commands' = <<>> /\ has_remote' = FALSE
  /\ needs_pop' = FALSE /\ config_changed' = FALSE /\ visited' = <<>>
  /\ git_log' = <<>> /\ crashed' = FALSE
  /\ sync_state' = <<>> /\ mk_failed' = {}
  /\ UNCHANGED <<disk, fs, edits, last_edit>>
  /\ UNCHANGED outsideLib

\* No library directory: choose a source and clone it (checked, inside a
\* try); every way out of this branch returns.
SkillsInitLibrary(choice, url, mk, out) ==
  /\ cmd = "skills" /\ spc = "begin" /\ ~fs[lib_path].exists
  /\ choice # "2" => url = ""
  /\ IF choice = "1" \/ (choice = "2" /\ url # "")
       THEN IF mk = "raise"
              THEN out = "ok" /\ UNCHANGED <<git_log, fs>>
              ELSE /\ git_log' = Append(git_log, Git(lib_path, "clone", out))
                   /\ fs' = [fs EXCEPT ![lib_path] = GitEffect(@, "clone", out)]
       ELSE mk = "ok" /\ out = "ok" /\ UNCHANGED <<git_log, fs>>
  /\ mk_failed' = IF mk = "raise" THEN mk_failed \cup {lib_path} ELSE mk_failed
  /\ spc' = "done"
  /\ UNCHANGED <<disk, cmd, personas, attached, choice_idx, targets, lib_path,
                 t, commands, has_remote, needs_pop, config_changed, visited,
                 crashed, sync_state,
                 edits, last_edit>>
  /\ UNCHANGED outsideLib

\* link_remote_library on a directory without .git: init (checked),
\* remote get-url (exits non-zero, there is no origin yet), remote add
\* (checked); n_ok counts the checked commands that succeed.
LinkLog(lib, n_ok) ==
  IF n_ok = 0 THEN <<Git(lib, "init", "fail")>>
  ELSE <<Git(lib, "init", "ok"), Git(lib, "remote get-url", "fail"),
         Git(lib, "remote add", IF n_ok = 1 THEN "fail" ELSE "ok")>>

\* Directory without .git: choose a source and link it; a refusal, an empty
\* URL or a failed link returns.
SkillsLink(choice, url, n_ok) ==
  /\ cmd = "skills" /\ spc = "begin"
  /\ fs[lib_path].exists /\ ~fs[lib_path].git
  /\ choice # "2" => url = ""
  /\ IF choice = "1" \/ (choice = "2" /\ url # "")
       THEN /\ git_log' = git_log \o LinkLog(lib_path, n_ok)
            /\ fs' = [fs EXCEPT ![lib_path] = ApplyLog(@, LinkLog(lib_path, n_ok))]
            /\ spc' = IF n_ok = 2 THEN "status" ELSE "done"
       ELSE /\ n_ok = 0 /\ spc' = "done"
            /\ UNCHANGED <<git_log, fs>>
  /\ UNCHANGED <<disk, cmd, personas, attached, choice_idx, targets, lib_path,
                 t, commands, has_remote, needs_pop, config_changed, visited,
                 crashed, sync_state, mk_failed,
                 edits, last_edit>>
  /\ UNCHANGED outsideLib

\* `git status --porcelain` inside try/except: uncommitted changes open the
\* stash / commit / abort menu, otherwise the sync proper follows.
SkillsStatus(st) ==
  /\ cmd = "skills"
  /\ \/ spc = "status"
     \/ spc = "begin" /\ fs[lib_path].exists /\ fs[lib_path].git
  /\ spc' = IF st = "ok" /\ fs[lib_path].dirty THEN "ask_dirty" ELSE "sync"
  /\ UNCHANGED <<disk, fs, cmd, personas, attached, choice_idx, targets,
                 lib_path, t, commands, has_remote, needs_pop, config_changed,
                 visited, git_log, crashed, sync_state, mk_failed,
                 edits, last_edit>>
  /\ UNCHANGED outsideLib

\* What the chosen menu row runs, all of it checked and outside any try.
DirtyLog(lib, choice, o1, o2) ==
  IF choice = 0 THEN <<Git(lib, "stash", o1)>>
  ELSE IF choice = 1
    THEN IF o1 = "ok" THEN <<Git(lib, "add", o1), Git(lib, "commit", o2)>>
         ELSE <<Git(lib, "add", o1)>>
    ELSE <<>>

\* Faulty variant: the Abort row does not return, the sync proper follows.
SkillsDirty_AbortSyncs(choice, o1, o2) ==
  /\ cmd = "skills" /\ spc = "ask_dirty"
  /\ LET log == DirtyLog(lib_path, choice, o1, o2)
         failed == \E n \in DOMAIN log : log[n].out # "ok"
     IN /\ Len(log) < 1 => o1 = "ok"
        /\ Len(log) < 2 => o2 = "ok"
        /\ git_log' = git_log \o log
        /\ fs' = [fs EXCEPT ![lib_path] = ApplyLog(@, log)]
        /\ needs_pop' = (choice = 0 /\ ~failed)
        /\ crashed' = failed
        /\ spc' = IF failed THEN "crashed" ELSE "sync"
  /\ UNCHANGED <<disk, cmd, personas, attached, choice_idx, targets, lib_path,
                 t, commands, has_remote, config_changed, visited, sync_state, mk_failed,
                 edits, last_edit>>
  /\ UNCHANGED outsideLib

\* The menu: 0 stash, 1 commit, 2 abort.
SkillsDirty(choice, o1, o2) ==
  /\ cmd = "skills" /\ spc = "ask_dirty"
  /\ LET log == DirtyLog(lib_path, choice, o1, o2)
         failed == \E n \in DOMAIN log : log[n].out # "ok"
     IN /\ Len(log) < 1 => o1 = "ok"
        /\ Len(log) < 2 => o2 = "ok"
        /\ git_log' = git_log \o log
        /\ fs' = [fs EXCEPT ![lib_path] = ApplyLog(@, log)]
        /\ needs_pop' = (choice = 0 /\ ~failed)
        /\ crashed' = failed
        /\ spc' = IF failed THEN "crashed" ELSE IF choice = 2 THEN "done" ELSE "sync"
  /\ UNCHANGED <<disk, cmd, personas, attached, choice_idx, targets, lib_path,
                 t, commands, has_remote, config_changed, visited, sync_state, mk_failed,
                 edits, last_edit>>
  /\ UNCHANGED outsideLib

\* The commands of step 3 up to the first one that ends it.
PullLog(lib, fetch, uptodate, main, master, pop, popping) ==
  IF fetch # "ok" THEN <<Git(lib, "fetch", fetch)>>
  ELSE IF uptodate THEN <<Git(lib, "fetch", fetch)>>
  ELSE IF main = "raise"
    THEN <<Git(lib, "fetch", fetch), Git(lib, "pull origin main", main)>>
  ELSE LET pulls == IF main = "ok"
                      THEN <<Git(lib, "fetch", fetch), Git(lib, "pull origin main", main)>>
                      ELSE <<Git(lib, "fetch", fetch), Git(lib, "pull origin main", main),
                             Git(lib, "pull origin master", master)>>
       IN IF popping /\ Last(pulls).out = "ok"
            THEN Append(pulls, Git(lib, "stash pop", pop))
            ELSE pulls

\* Step 3, inside one try: fetch (checked); return when already up to date;
\* pull origin main, then origin master after a non-zero exit; pop the stash
\* when the pull exited 0.  Unless it returned early, the update flag in the
\* configuration is reset afterwards.
SkillsSync(fetch, uptodate, main, master, pop) ==
  /\ cmd = "skills" /\ spc = "sync"
  /\ LET log == PullLog(lib_path, fetch, uptodate, main, master, pop, needs_pop)
         early == fetch = "ok" /\ uptodate
     IN /\ fetch # "ok" => ~uptodate
        /\ (Len(log) < 2 \/ early) => main = "ok"
        /\ (Len(log) < 3 \/ log[3].op # "pull origin master") => master = "ok"
        /\ Last(log).op # "stash pop" => pop = "ok"
        /\ git_log' = git_log \o log
        /\ fs' = [fs EXCEPT ![lib_path] = ApplyLog(@, log)]
        /\ disk' = IF ~early /\ disk.updates_pending # "absent"
                     THEN [disk EXCEPT !.updates_pending = "false"]
                     ELSE disk
  /\ spc' = "done"
  /\ UNCHANGED <<cmd, personas, attached, choice_idx, targets, lib_path, t,
                 commands, has_remote, needs_pop, config_changed, visited,
                 crashed, sync_state, mk_failed,
                 edits, last_edit>>
  /\ UNCHANGED outsideLib

sync_skills ==
  \/ SkillsStart
  \/ \E choice \in SourceChoices, url \in UrlInputs, mk \in MkOuts, out \in Outs :
       SkillsInitLibrary(choice, url, mk, out)
  \/ \E choice \in SourceChoices, url \in UrlInputs, n_ok \in 0..2 :
       SkillsLink(choice, url, n_ok)
  \/ \E st \in MkOuts : SkillsStatus(st)
  \/ \E choice \in 0..2, o1 \in Outs, o2 \in Outs : SkillsDirty(choice, o1, o2)
  \/ \E fetch \in Outs, uptodate \in BOOLEAN, main \in Outs, master \in Outs, pop \in Outs :
       SkillsSync(fetch, uptodate, main, master, pop)


\* ---- persona management --------------------------------------------------

\* sorted keys of config["personas"] other than "programmer"
dynamic_personas == SelectSeq(NameOrder, LAMBDA n : n \in DOMAIN disk.personas)

\* The function f with key k removed / with k bound to v.
Without(f, k) == [n \in DOMAIN f \ {k} |-> f[n]]
With(f, k, v) == [n \in DOMAIN f \cup {k} |-> IF n = k THEN v ELSE f[n]]

\* manage_personas_menu loops: management functions follow one another.
CanEdit == cmd = "idle" /\ edits < MaxEdits

\* The characters re.sub(r'[^a-z0-9_]', '', name) keeps.
KeyChars ==
  {"a", "b", "c", "d", "e", "f", "g", "h", "i", "j", "k", "l", "m", "n", "o",
   "p", "q", "r", "s", "t", "u", "v", "w", "x", "y", "z",
   "0", "1", "2", "3", "4", "5", "6", "7", "8", "9", "_"}

\* str.lower(), on the upper-case letters the typed names use.
lower(s) ==
  LET low(c) == CASE c = "W" -> "w" [] c = "H" -> "h" [] OTHER -> c
  IN [k \in DOMAIN s |-> low(s[k])]

\* re.sub(r'[^a-z0-9_]', '', s): every other character is dropped.
re_sub(s) == SelectSeq(s, LAMBDA c : c \in KeyChars)

\* Persona keys are written as whole strings in this module; Spell gives the
\* characters of a key and Word the key that a character sequence spells.
Spell(n) ==
  CASE n = "programmer" -> <<"p", "r", "o", "g", "r", "a", "m", "m", "e", "r">>
    [] n = "work" -> <<"w", "o", "r", "k">>
    [] n = "home" -> <<"h", "o", "m", "e">>
    [] OTHER -> <<>>

Word(s) == CHOOSE n \in Names \cup {""} : Spell(n) = s

\* add_persona with the text typed by the operator: it is stripped and
\* lowered, an empty text returns, and only then is it normalised; an
\* existing or reserved name changes nothing; otherwise the library
\* directory is made and the record saved unlocked.
add_persona(new_name) ==
  LET typed == lower(strip(new_name))
      pname == Word(re_sub(typed))
  IN /\ CanEdit
     /\ edits' = edits + 1
     /\ last_edit' = Edit("add", "", IF typed = <<>> THEN "" ELSE pname)
     /\ IF typed = <<>> \/ pname \in DOMAIN disk.personas \/ pname = "programmer"
          THEN UNCHANGED <<disk, fs>>
          ELSE /\ fs' = [fs EXCEPT ![HomePath(pname)] =
                           IF @.exists THEN @ ELSE Plain]
               /\ disk' = [disk EXCEPT
                             !.has_map = TRUE,
                             !.personas = With(@, pname,
                                               Rec(HomePath(pname), NoUrl, FALSE))]
     /\ UNCHANGED passVars
     /\ UNCHANGED outsideLib

\* rename_persona without the locked test.
rename_persona_IgnoresLock(choice, new_name) ==
  /\ CanEdit
  /\ dynamic_personas # <<>>
  /\ choice \in 1..(Len(dynamic_personas) + 1)
  /\ edits' = edits + 1
  /\ last_edit' = IF choice > Len(dynamic_personas) THEN Edit("rename", "", "")
                  ELSE Edit("rename", dynamic_personas[choice],
                            IF lower(strip(new_name)) = <<>> THEN ""
                            ELSE Word(re_sub(lower(strip(new_name)))))
  /\ IF choice > Len(dynamic_personas) THEN UNCHANGED <<disk, fs>>
     ELSE LET old_name == dynamic_personas[choice]
              old == disk.personas[old_name]
              old_path == old.path
              typed == lower(strip(new_name))
              pname == Word(re_sub(typed))
              new_path == HomePath(pname)
          IN IF \/ typed = <<>>
                \/ pname \in DOMAIN disk.personas
                \/ pname = "programmer"
               THEN UNCHANGED <<disk, fs>>
               ELSE IF old_path = HomePath(old_name)
                 THEN IF fs[old_path].exists /\ fs[new_path].exists
                        THEN UNCHANGED <<disk, fs>>
                        ELSE /\ fs' = IF fs[old_path].exists
                                        THEN [fs EXCEPT ![new_path] = fs[old_path],
                                                        ![old_path] = Missing]
                                        ELSE fs
                             /\ disk' = [disk EXCEPT !.personas =
                                           With(Without(@, old_name), pname,
                                                [old EXCEPT !.path = new_path])]
                 ELSE /\ disk' = [disk EXCEPT !.personas =
                                    With(Without(@, old_name), pname, old)]
                      /\ UNCHANGED fs
  /\ UNCHANGED passVars
  /\ UNCHANGED outsideLib

\* rename_persona: pick a persona or Cancel; a locked one is refused; the
\* text typed is stripped and lowered, an empty text returns, and only then
\* is it normalised; the resulting name must be unused.  A library at its standard path
\* is moved to the new standard path (refused when that exists) and the
\* record follows; a custom path keeps its directory.
rename_persona(choice, new_name) ==
  /\ CanEdit
  /\ dynamic_personas # <<>>
  /\ choice \in 1..(Len(dynamic_personas) + 1)
  /\ edits' = edits + 1
  /\ last_edit' = IF choice > Len(dynamic_personas) THEN Edit("rename", "", "")
                  ELSE Edit("rename", dynamic_personas[choice],
                            IF lower(strip(new_name)) = <<>> THEN ""
                            ELSE Word(re_sub(lower(strip(new_name)))))
  /\ IF choice > Len(dynamic_personas) THEN UNCHANGED <<disk, fs>>
     ELSE LET old_name == dynamic_personas[choice]
              old == disk.personas[old_name]
              old_path == old.path
              typed == lower(strip(new_name))
              pname == Word(re_sub(typed))
              new_path == HomePath(pname)
          IN IF \/ old.locked
                \/ typed = <<>>
                \/ pname \in DOMAIN disk.personas
                \/ pname = "programmer"
               THEN UNCHANGED <<disk, fs>>
               ELSE IF old_path = HomePath(old_name)
                 THEN IF fs[old_path].exists /\ fs[new_path].exists
                        THEN UNCHANGED <<disk, fs>>
                        ELSE /\ fs' = IF fs[old_path].exists
                                        THEN [fs EXCEPT ![new_path] = fs[old_path],
                                                        ![old_path] = Missing]
                                        ELSE fs
                             /\ disk' = [disk EXCEPT !.personas =
                                           With(Without(@, old_name), pname,
                                                [old EXCEPT !.path = new_path])]
                 ELSE /\ disk' = [disk EXCEPT !.personas =
                                    With(Without(@, old_name), pname, old)]
                      /\ UNCHANGED fs
  /\ UNCHANGED passVars
  /\ UNCHANGED outsideLib

\* lock_persona: pick a persona or Cancel; its locked flag is flipped.
lock_persona(choice) ==
  /\ CanEdit
  /\ dynamic_personas # <<>>
  /\ choice \in 1..(Len(dynamic_personas) + 1)
  /\ edits' = edits + 1
  /\ last_edit' = IF choice > Len(dynamic_personas) THEN Edit("lock", "", "")
                  ELSE Edit("lock", dynamic_personas[choice], "")
  /\ IF choice > Len(dynamic_personas) THEN UNCHANGED disk
     ELSE disk' = [disk EXCEPT !.personas[dynamic_personas[choice]].locked = ~@]
  /\ UNCHANGED fs
  /\ UNCHANGED passVars
  /\ UNCHANGED outsideLib

\* delete_persona: pick a persona or Cancel; a locked one is refused; the
\* operator types the name to confirm; the directory is removed, the key
\* deleted and current_persona reset when it named the deleted one.
delete_persona(choice, confirmed) ==
  /\ CanEdit
  /\ dynamic_personas # <<>>
  /\ choice \in 1..(Len(dynamic_personas) + 1)
  /\ edits' = edits + 1
  /\ last_edit' = IF choice > Len(dynamic_personas) THEN Edit("delete", "", "")
                  ELSE Edit("delete", dynamic_personas[choice],
                            IF confirmed THEN dynamic_personas[choice] ELSE "")
  /\ IF choice > Len(dynamic_personas) THEN UNCHANGED <<disk, fs>>
     ELSE LET p_name == dynamic_personas[choice]
              rec == disk.personas[p_name]
          IN IF rec.locked \/ ~confirmed
               THEN UNCHANGED <<disk, fs>>
               ELSE /\ fs' = [fs EXCEPT ![rec.path] = Missing]
                    /\ disk' = [disk EXCEPT
                                  !.personas = Without(@, p_name),
                                  !.current_persona =
                                     IF @ = p_name THEN "programmer" ELSE @]
  /\ UNCHANGED passVars
  /\ UNCHANGED outsideLib

\* Texts the operator types at "Persona Name" and "New Name": nothing, a
\* blank, the three names, a name with a capital and a blank around it, and
\* a text without any character of a key.
NameInputs ==
  {<<>>, <<" ">>, Spell("programmer"), Spell("work"), Spell("home"),
   <<" ", "W", "o", "r", "k">>, <<"H", "o", "m", "e", " ">>, <<"!">>}

\* The rows of a management menu: a persona each, and Cancel.
MenuRows == 1..(Len(NameOrder) + 1)

manage_personas_menu ==
  \/ \E new_name \in NameInputs : add_persona(new_name)
  \/ \E choice \in MenuRows, new_name \in NameInputs :
       rename_persona(choice, new_name)
  \/ \E choice \in MenuRows : lock_persona(choice)
  \/ \E choice \in MenuRows, confirmed \in BOOLEAN :
       delete_persona(choice, confirmed)

\* ---- the configurations and directories a run can start from -------------

\* Persona maps a configuration file can hold: "programmer" with or without
\* a remote, "work" at its standard or at a custom path.
InitMaps ==
  {f \in UNION {[D -> {Rec(pa, u, l) : pa \in Paths, u \in Urls \cup {NoUrl}, l \in BOOLEAN}] :
                  D \in SUBSET {"programmer", "work"}} :
     /\ "programmer" \in DOMAIN f =>
          f["programmer"].path = DEFAULT_LIBRARY_PATH /\ ~f["programmer"].locked
     /\ "work" \in DOMAIN f =>
          \/ f["work"].path = "library_work"
          \/ f["work"] = Rec("elsewhere", NoUrl, FALSE)}

InitDisk ==
  /\ disk \in [has_map : BOOLEAN, personas : InitMaps,
               current_persona : {"programmer", "work"},
               updates_pending : {"absent", "true"}]
  /\ ~disk.has_map => disk.personas = <<>>
  /\ disk.current_persona = "work" <=> disk.updates_pending = "absent"
  /\ "work" \notin DOMAIN disk.personas => disk.current_persona = "programmer"

\* A directory that no record points at is absent or a plain directory; the
\* default library and the library of "work" are in any state.
InitFs ==
  /\ fs \in [Paths -> DirStates]
  /\ \A pa \in Paths :
       pa \notin {DEFAULT_LIBRARY_PATH} \cup {disk.personas[n].path : n \in DOMAIN disk.personas}
         => fs[pa] = Missing

InitLib ==
  /\ InitDisk /\ InitFs /\ LibIdle
  /\ edits = 0 /\ last_edit = NoEdit
  /\ ExecIdle /\ PlanIdle /\ DocIdle /\ exit_status = -1

NextLib ==
  \/ sync_all_personas
  \/ push_all_personas
  \/ sync_skills
  \/ manage_personas_menu


(* ---------------------------------------------------------------------- *)
(* Specifications                                                          *)
(* ---------------------------------------------------------------------- *)
vars == <<execVars, libVars, planVars, docVars, exit_status>>

\* No library function runs and the configuration is a fixed one.
LibQuiet ==
  /\ disk = [has_map |-> FALSE, personas |-> <<>>,
             current_persona |-> "programmer", updates_pending |-> "absent"]
  /\ fs = [pa \in Paths |-> Missing]
  /\ LibIdle /\ edits = 0 /\ last_edit = NoEdit

\* An invocation of apply_skill or deploy_project on some plan.
InitExec ==
  /\ ExecInputs
  /\ LibQuiet /\ PlanIdle /\ DocIdle /\ exit_status = -1

\* The execution loops of apply_skill and deploy_project.
SpecExec == InitExec /\ [][NextExec]_vars

\* Reconciliation and persona management.
SpecLib == InitLib /\ [][NextLib]_vars

\* A standard deployment of a project of some grade, in some working
\* directory, on some machine.
InitPlan ==
  /\ grade \in Grades /\ lockfiles \in SUBSET LockNames /\ tools \in ToolStates
  /\ issues = <<>> /\ steps = <<>> /\ ppc = "begin"
  /\ runner = "standard" /\ dry_run = FALSE /\ matches = <<>> /\ i = 1
  /\ pc = "plan" /\ choices = {} /\ launched = <<>> /\ exits = <<>>
  /\ tmp_files = {} /\ tmp_created = 0 /\ presented = <<>>
  /\ outcomes = <<>> /\ final = "none" /\ aborted = FALSE
  /\ harvest_saved = FALSE /\ answers = <<>>
  /\ LibQuiet /\ DocIdle /\ exit_status = -1

NextPlan == deploy_plan \/ deploy_standard \/ MainExit

\* deploy_project with the standard strategy, from .jaavisrc to the exit.
SpecPlan == InitPlan /\ [][NextPlan]_vars

\* The characters documents are made of here, and how long they get.
Chars == {"-", "\n", "k", ":"}

MaxChars == 6

\* The parts files are written from, and how many a file has.  A body has
\* no line, one line, a blank line, or two lines.
Bodies == {<<>>, <<"c1">>, <<"">>, <<"c1", "c2">>, <<"c2", "">>}

MaxParts == 3

\* The pieces of block bodies, how many a body has, and the contexts: no
\* context, or values for some of the keys k and x, in either order.
Pieces == {Piece(FALSE, "a"), Piece(TRUE, "k"), Piece(TRUE, "x")}

MaxPieces == 4

ContextValues == {<<".">>, <<"w", "/">>, <<"k">>}

Contexts ==
  {<<>>}
  \cup {<<[key |-> a, val |-> v]>> : a \in {"k", "x"}, v \in ContextValues}
  \cup UNION {{<<[key |-> a, val |-> v], [key |-> b, val |-> w]>> :
                  b \in {"k", "x"} \ {a}, v \in ContextValues, w \in ContextValues} :
              a \in {"k", "x"}}

Parts ==
  {Part("text", <<"t">>), Part("fenced", <<"c1">>), Part("marker", <<"t">>)}
  \cup {Part("block", body) : body \in Bodies}

\* One call of a document function on some input.
InitDoc ==
  /\ \/ /\ task = "frontmatter"
        /\ content \in SeqsUpTo(Chars, MaxChars)
        /\ yaml_mode \in {"fallback", "safe_load", "yaml_error"}
        /\ document = <<>> /\ cmd_block = <<>> /\ context = <<>>
     \/ /\ task = "extract"
        /\ document \in SeqsUpTo(Parts, MaxParts)
        /\ content = <<>> /\ yaml_mode = "none"
        /\ cmd_block = <<>> /\ context = <<>>
     \/ /\ task = "template"
        /\ cmd_block \in SeqsUpTo(Pieces, MaxPieces) /\ context \in Contexts
        /\ content = <<>> /\ yaml_mode = "none" /\ document = <<>>
  /\ dpc = "ready" /\ meta = Returned("unset", {}, <<>>)
  /\ blocks = <<>> /\ rendered = <<>>
  /\ ExecIdle /\ LibQuiet /\ PlanIdle /\ exit_status = -1

NextDoc == ParseFrontmatter \/ ExtractBlocks \/ ApplyTemplate \/ ApplyTemplateAgain

\* The document functions, each applied once to every input of the bounds.
SpecDoc == InitDoc /\ [][NextDoc]_vars

(* ====================================================================== *)
(* Properties                                                              *)
(* ====================================================================== *)

Increasing(s) == \A a, b \in DOMAIN s : a < b => s[a] < s[b]

\* The result lines printed for block k.
OutcomesOf(k) == {outcomes[n].msg : n \in {m \in DOMAIN outcomes : outcomes[m].block = k}}

Asked(blk, q, a) == Answer(blk, q, a) \in Range(answers)

\* A 3-block apply_skill run: block 1 exits 0, block 2 exits non-zero and
\* the operator refuses to continue.
C1_Scenario ==
  /\ runner = "apply" /\ Len(matches) = 3
  /\ Len(launched) >= 2
  /\ launched[1] = 1 /\ exits[1] = 0
  /\ launched[2] = 2 /\ exits[2] # 0
  /\ Asked(2, "continue", "n")

\* C1: in a 3-step run where step 1 exits 0, step 2 exits non-zero and the
\* operator stops, the recorded outcomes are exactly step 1 Success and
\* step 2 Failed; step 3 is never shown, never launched and has no outcome.
C1_AbortAtStepTwo ==
  C1_Scenario =>
    /\ pc = "done"
    /\ launched = <<1, 2>>
    /\ outcomes = <<Line(1, "Success"), Line(2, "Failed")>>
    /\ 3 \notin Range(presented)
    /\ tmp_files = {}

C1_Witness == C1_Scenario /\ pc = "done" /\ aborted

\* A finished 3-block apply_skill run in which block 2 exited non-zero and
\* the operator answered "Continue anyway?" with yes.
C2_Scenario ==
  /\ runner = "apply" /\ Len(matches) = 3 /\ pc = "done"
  /\ \E n \in DOMAIN launched : launched[n] = 2 /\ exits[n] # 0
  /\ Asked(2, "continue", "y")

C4_DryRun ==
  (runner = "apply" /\ dry_run) =>
    /\ launched = <<>> /\ exits = <<>>
    /\ tmp_created = 0 /\ tmp_files = {}
    /\ answers = <<>> /\ ~aborted
    /\ \A n \in DOMAIN outcomes : outcomes[n] = Line(n, "DryRunSkipped")
    /\ \A n \in DOMAIN presented : presented[n] = n
    /\ Len(outcomes) = Len(presented)
    /\ (pc = "done" /\ matches # <<>>) =>
         Len(outcomes) = Len(matches) /\ final = "Skill Applied Successfully!"

C4_Witness ==
  /\ runner = "apply" /\ dry_run /\ pc = "done"
  /\ Len(matches) >= 2 /\ Len(outcomes) = Len(matches)

\* A block the loop has gone past without launching it.
PassedOver(k) ==
  /\ k \in 1..Len(matches)
  /\ k \notin Range(launched)
  /\ launched # <<>> /\ k < Last(launched)

\* The run skipped block k: the operator declined it, or the harvested
\* loop found it empty.
SkipOf(k) ==
  \/ "SkippedByUser" \in OutcomesOf(k)
  \/ runner = "harvested" /\ matches[k] = ""

\* C5: blocks are launched in plan order, the launched blocks are a prefix of
\* the plan but for the blocks that were skipped, and once the operator has
\* stopped the run nothing more is launched.
C5_PlanOrder ==
  /\ [](/\ Increasing(launched)
        /\ Range(launched) \subseteq 1..Len(matches)
        /\ \A k \in 1..Len(matches) : PassedOver(k) => SkipOf(k)
        /\ runner = "standard" => \A n \in DOMAIN launched : launched[n] = n)
  /\ [][aborted => launched' = launched /\ presented' = presented]_vars

C5_Witness ==
  /\ aborted /\ pc = "done"
  /\ \E k \in 1..Len(matches) : PassedOver(k)
  /\ Len(launched) >= 2

\* ---- reconciliation ------------------------------------------------------

\* The git commands issued for one library, in order.
LogOf(lib) == SelectSeq(git_log, LAMBDA e : e.lib = lib)

Libraries == Names \cup Paths

IsPull(op) == op \in {"pull --rebase", "pull origin main", "pull origin master"}

\* How many entries of log L satisfy Test.
Count(L, Test(_)) == Cardinality({n \in DOMAIN L : Test(L[n])})

\* The reconciliation of library lib is over: the loop of sync_all_personas
\* has moved past its record, or sync_skills has returned.
Finished(lib) ==
  \/ cmd = "sync" /\ \E k \in 1..Len(targets) : targets[k] = lib /\ k < t
  \/ cmd = "skills" /\ spc = "done" /\ lib = lib_path

\* C6: once the reconciliation of a library is over, every stash it created
\* was followed by a pull and, after the pull and whatever its result, by a
\* stash pop - no stash is left behind.
C6_StashAlwaysPopped ==
  \A lib \in Libraries :
    Finished(lib) =>
      LET L == LogOf(lib)
      IN \A a \in DOMAIN L :
           (L[a].op = "stash" /\ L[a].out = "ok") =>
             \E b, c \in DOMAIN L :
               /\ a < b /\ b < c
               /\ IsPull(L[b].op)
               /\ L[c].op = "stash pop"

\* C7: when a sync or push over a selection has ended, normally or not,
\* every record of the selection was attempted.
C7_AllTargetsAttempted ==
  (cmd \in {"sync", "push"} /\ spc \in {"done", "crashed"}) => visited = targets

\* The records sync_all_personas found without a directory and with a
\* remote URL.
CloneCases ==
  {k \in DOMAIN sync_state :
     cmd = "sync" /\ ~sync_state[k].exists /\ sync_state[k].url}

\* C8 as stated: such a record gets exactly one clone and nothing else.
C8_Original ==
  \A k \in CloneCases :
    LET L == LogOf(targets[k])
    IN Len(L) = 1 /\ L[1].op = "clone"

\* C8: a record without a directory and with a remote URL gets at most one
\* clone - exactly one unless creating the parent directory raised, and then
\* none - and no pull, push, stash or init.
C8_CloneOnly ==
  \A k \in CloneCases :
    LET L == LogOf(targets[k])
    IN /\ \A n \in DOMAIN L : L[n].op = "clone"
       /\ Len(L) = IF targets[k] \in mk_failed THEN 0 ELSE 1

C8_Witness ==
  \E k \in CloneCases :
    /\ targets[k] \notin mk_failed
    /\ LogOf(targets[k]) = <<Git(targets[k], "clone", "ok")>>
    /\ fs[personas[targets[k]].path] = Cloned

\* C9: in the log of one library and one pass a pull is issued at most
\* twice; the upstream is set at most once, and only straight after a
\* `pull --rebase` that failed for want of tracking information; such a
\* failure of the first pull is always answered by setting the upstream, and
\* once that command has returned the pull is issued once more and is the
\* last pull; no other command is issued twice.
C9_SingleRetry ==
  \A lib \in Libraries :
    LET L == LogOf(lib)
        IsSet(e) == e.op = "set-upstream"
        IsRebase(e) == e.op = "pull --rebase"
        PullEntry(e) == IsPull(e.op)
    IN /\ Count(L, PullEntry) <= 2
       /\ Count(L, IsSet) <= 1
       /\ \A n \in DOMAIN L :
            IsSet(L[n]) =>
              /\ n > 1 /\ IsRebase(L[n - 1]) /\ L[n - 1].out = "no_tracking"
              /\ Count(SubSeq(L, 1, n - 1), IsRebase) = 1
              /\ IF L[n].out = "raise"
                   THEN n = Len(L) /\ crashed
                   ELSE /\ n < Len(L) /\ IsRebase(L[n + 1])
                        /\ Count(SubSeq(L, n + 1, Len(L)), PullEntry) = 1
       /\ \A n \in DOMAIN L :
            (IsRebase(L[n]) /\ L[n].out = "no_tracking"
               /\ Count(SubSeq(L, 1, n), IsRebase) = 1)
              => n < Len(L) /\ IsSet(L[n + 1])
       /\ \A a, b \in DOMAIN L :
            (a < b /\ L[a].op = L[b].op) =>
              /\ IsRebase(L[a])
              /\ \E n \in (a + 1)..(b - 1) : IsSet(L[n])

C9_Witness ==
  /\ cmd = "sync"
  /\ \E lib \in Names :
       \E n \in DOMAIN LogOf(lib) :
         /\ n + 2 <= Len(LogOf(lib))
         /\ LogOf(lib)[n] = Git(lib, "pull --rebase", "no_tracking")
         /\ LogOf(lib)[n + 1] = Git(lib, "set-upstream", "ok")
         /\ LogOf(lib)[n + 2] = Git(lib, "pull --rebase", "fail")
         /\ Finished(lib)

\* ---- persona management --------------------------------------------------

\* The management function that has just run was a rename or a delete aimed
\* at a persona whose record is locked.
OnLocked ==
  /\ edits' = edits + 1
  /\ last_edit'.op \in {"rename", "delete"}
  /\ last_edit'.who \in DOMAIN disk.personas
  /\ disk.personas[last_edit'.who].locked

\* Whether a pass over every persona reached the locked ones too.
LockedReached ==
  (cmd \in {"sync", "push"} /\ choice_idx = 0 /\ spc = "done") =>
    \A n \in DOMAIN personas : personas[n].locked => n \in Range(visited)

\* A locked persona picked on its own is the selection.
LockedSelectable ==
  (cmd \in {"sync", "push"} /\ choice_idx > 0) =>
    /\ targets = <<persona_keys(personas)[choice_idx]>>
    /\ spc = "done" => visited = targets

\* C10: a rename or a delete aimed at a locked persona changes neither the
\* configuration nor any directory; and sync and push select and visit a
\* locked persona like any other.
C10_LockedIdentity ==
  /\ [][OnLocked => (disk' = disk /\ fs' = fs)]_vars
  /\ [](LockedReached /\ LockedSelectable)

C10_Witness ==
  /\ last_edit.op = "rename"
  /\ last_edit.who \in DOMAIN disk.personas
  /\ disk.personas[last_edit.who].locked
  /\ last_edit.new \notin DOMAIN disk.personas \cup {"", "programmer"}
  /\ ~fs[HomePath(last_edit.new)].exists


\* ---- the plan of a standard deployment (SpecPlan) ------------------------

\* The plan of grade g has been built.
Resolved(g) == ppc = "resolved" /\ grade = g

PlanCmds == [k \in DOMAIN steps |-> steps[k].cmd]

\* The commands of the plan's "Security Audit" steps.
AuditCmds == {steps[k].cmd : k \in {n \in DOMAIN steps : steps[n].title = "Security Audit"}}

HasGeneration == "npm i --package-lock-only" \in Range(PlanCmds)

GenerationBeforeNpmAudit ==
  \E k \in 1..(Len(steps) - 1) :
    /\ steps[k].cmd = "npm i --package-lock-only"
    /\ steps[k + 1].cmd = "npm audit"

OtherManagers == {"pnpm-lock.yaml", "bun.lockb", "yarn.lock"}

\* C11 as stated: for grade A, a pnpm lockfile makes the audit command
\* `pnpm audit`, and whenever none of the pnpm, bun and yarn lockfiles is
\* present a lockfile-generation step stands immediately before `npm audit`.
C11_Original ==
  Resolved("A") =>
    /\ "pnpm-lock.yaml" \in lockfiles => AuditCmds = {"pnpm audit"}
    /\ lockfiles \cap OtherManagers = {} => GenerationBeforeNpmAudit

\* C11: for grade A, a pnpm lockfile makes the audit command `pnpm audit`;
\* when none of the pnpm, bun and yarn lockfiles is present the audit command
\* is `npm audit`, and a lockfile-generation step stands immediately before it
\* exactly when package-lock.json is absent as well.
C11_LockfileGeneration ==
  Resolved("A") =>
    /\ "pnpm-lock.yaml" \in lockfiles => AuditCmds = {"pnpm audit"}
    /\ lockfiles \cap OtherManagers = {} =>
         /\ AuditCmds = {"npm audit"}
         /\ GenerationBeforeNpmAudit <=> "package-lock.json" \notin lockfiles
         /\ HasGeneration <=> "package-lock.json" \notin lockfiles

C11_Witness ==
  /\ Resolved("A") /\ lockfiles = {}
  /\ GenerationBeforeNpmAudit

\* C12: for grade A and every combination of lockfiles the audit command is
\* the one of the first match in the order pnpm, bun (npm audit when
\* package-lock.json is there too, none otherwise), yarn, npm; a lockfile
\* further down the order never changes the choice.
C12_AuditPriority ==
  Resolved("A") =>
    /\ Cardinality({n \in DOMAIN steps : steps[n].title = "Security Audit"}) <= 1
    /\ "pnpm-lock.yaml" \in lockfiles => AuditCmds = {"pnpm audit"}
    /\ ("pnpm-lock.yaml" \notin lockfiles /\ "bun.lockb" \in lockfiles) =>
         AuditCmds = IF "package-lock.json" \in lockfiles THEN {"npm audit"} ELSE {}
    /\ ({"pnpm-lock.yaml", "bun.lockb"} \cap lockfiles = {} /\ "yarn.lock" \in lockfiles) =>
         AuditCmds = {"yarn audit"}
    /\ OtherManagers \cap lockfiles = {} => AuditCmds = {"npm audit"}

C12_Witness ==
  /\ Resolved("A") /\ lockfiles = LockNames
  /\ AuditCmds = {"pnpm audit"}

PlanC == <<"npm run build", "screen -dmS project npm run start", "npm run dev">>

PlanB == <<"npm test", "docker compose build", "docker compose up -d", "npx supabase db push">>

\* test, audit, apply manifests, migrate
IsPlanA(cmds) ==
  /\ Len(cmds) = 4
  /\ cmds[1] = "npm run test:e2e"
  /\ cmds[2] \in {"pnpm audit", "npm audit", "yarn audit"}
  /\ cmds[3] = "kubectl apply -f k8s/"
  /\ cmds[4] = "npx supabase migration up"

\* C13 as stated: grade C resolves to build, detached launch, foreground dev;
\* grade B to test, build image, run containers, migrate; grade A, for every
\* lockfile combination, to test, audit, apply manifests, migrate.
C13_Original ==
  /\ Resolved("C") => PlanCmds = PlanC
  /\ Resolved("B") => PlanCmds = PlanB
  /\ Resolved("A") => IsPlanA(PlanCmds)

\* bun.lockb without pnpm-lock.yaml and without package-lock.json: the audit
\* is skipped.
AuditSkipped ==
  /\ "bun.lockb" \in lockfiles
  /\ lockfiles \cap {"pnpm-lock.yaml", "package-lock.json"} = {}

\* C13: grade C resolves to build, detached launch, foreground dev; grade B to
\* test, build image, run containers, migrate; grade A to test, audit, apply
\* manifests, migrate, where the audit step is left out when bun.lockb is
\* present with neither pnpm-lock.yaml nor package-lock.json, and a
\* lockfile-generation step precedes the audit when no lockfile is present.
C13_GradePlans ==
  /\ Resolved("C") => PlanCmds = PlanC
  /\ Resolved("B") => PlanCmds = PlanB
  /\ Resolved("A") =>
       IF AuditSkipped
         THEN PlanCmds = <<"npm run test:e2e", "kubectl apply -f k8s/",
                           "npx supabase migration up">>
       ELSE IF lockfiles = {}
         THEN PlanCmds = <<"npm run test:e2e", "npm i --package-lock-only", "npm audit",
                           "kubectl apply -f k8s/", "npx supabase migration up">>
       ELSE IsPlanA(PlanCmds)

C13_Witness ==
  /\ Resolved("A") /\ lockfiles = {"yarn.lock"}
  /\ PlanCmds = <<"npm run test:e2e", "yarn audit", "kubectl apply -f k8s/",
                  "npx supabase migration up">>

Warned(w) == w \in Range(issues)

ClusterWarned == Warned("Kubectl not installed") \/ Warned("Kubernetes Cluster Unreachable")

\* C14: once the pre-flight has run, grade B carries the container-engine
\* warning exactly when docker is not found, grade A carries a cluster
\* warning exactly when kubectl is not found or `kubectl cluster-info` did
\* not succeed, and grade C carries neither.
C14_PreflightWarnings ==
  ppc # "begin" =>
    /\ grade = "B" => (Warned("Docker not installed") <=> ~tools.docker)
    /\ grade = "A" => (ClusterWarned <=> (~tools.kubectl \/ tools.cluster # "ok"))
    /\ grade = "C" => ~Warned("Docker not installed") /\ ~ClusterWarned

C14_Witness ==
  /\ grade = "A" /\ tools.kubectl /\ tools.cluster = "timeout"
  /\ Warned("Kubernetes Cluster Unreachable")

ContinueAnswers == {answers[n].a : n \in {m \in DOMAIN answers : answers[m].q = "preflight"}}

\* C15: warnings are advisory. Whatever the warnings, an operator who answers
\* y to "Continue anyway?" gets the plan of the grade; a deployment of grade
\* A, B or C that ends with no step launched was stopped by an answer of the
\* operator (n to "Continue anyway?" or No to "Ready to execute?"); and with
\* no warnings "Continue anyway?" is never asked.
C15_WarningsAdvisory ==
  /\ "y" \in ContinueAnswers =>
       /\ ppc \in {"resolve", "resolved"}
       /\ ppc = "resolved" /\ grade \in {"A", "B", "C"} => steps # <<>>
  /\ (pc = "done" /\ launched = <<>> /\ grade \in {"A", "B", "C"}) =>
       /\ final = "Aborted."
       /\ answers # <<>>
       /\ \/ Last(answers) = Answer(0, "preflight", "n")
          \/ Last(answers) = Answer(0, "ready", "No")
  /\ (ppc # "begin" /\ issues = <<>>) => ppc # "ask_continue" /\ ContinueAnswers = {}

C15_Witness ==
  /\ issues # <<>> /\ "y" \in ContinueAnswers
  /\ pc = "done" /\ final = "Deployment Complete!"

\* ---- harvested deployment against apply_skill; the exit status -----------

\* What every finished run of apply_skill shows (dry runs and documents
\* without blocks aside): a block is launched only after "Execute this
\* block?" was answered y; every block up to the stop is launched or
\* declined, whatever its body; a completion line closes the run, also when
\* the operator stopped it.
ExecutionProtocol ==
  (pc = "done" /\ ~dry_run /\ matches # <<>>) =>
    /\ \A k \in Range(launched) : Asked(k, "execute", "y")
    /\ \A k \in 1..Len(matches) :
         k <= (IF aborted THEN i ELSE Len(matches)) =>
           k \in Range(launched) \/ Asked(k, "execute", "n")
    /\ final # "none"

\* apply_skill itself follows it.
ApplyFollowsProtocol == runner = "apply" => ExecutionProtocol

\* C16: a harvested deployment runs by the protocol of apply_skill: for every
\* document, exit codes and answers it launches the blocks apply_skill would
\* launch, offers the decisions apply_skill offers, and ends with a
\* completion line as apply_skill does.
C16_HarvestedAsApply ==
  runner \in {"apply", "harvested"} => ExecutionProtocol

\* A step or block exited non-zero, or the operator stopped the run.
HardFailure ==
  \/ aborted
  \/ final = "Aborted."
  \/ \E n \in DOMAIN exits : exits[n] # 0

\* C17: the process ends with a non-zero exit status exactly when the
\* execution aborted or a step failed.
C17_ExitStatus ==
  exit_status # -1 => (exit_status # 0 <=> HardFailure)

\* ---- document functions (SpecDoc) ----------------------------------------

\* "---" stands in string s at position k.
DelimiterAt(s, k) ==
  /\ k >= 1 /\ k + 2 <= Len(s)
  /\ s[k] = "-" /\ s[k + 1] = "-" /\ s[k + 2] = "-"

\* The first character of s that is not whitespace is at position k.
FirstBlack(s, k) ==
  /\ k \in DOMAIN s /\ s[k] \notin {" ", "\n"}
  /\ \A n \in 1..(k - 1) : s[n] \in {" ", "\n"}

\* The content opens with the delimiter (leading whitespace aside) ...
HasOpening(s) == \E k \in DOMAIN s : FirstBlack(s, k) /\ DelimiterAt(s, k)

\* ... and the delimiter stands once more behind the opening one.
HasClosing(s) ==
  \E k \in DOMAIN s :
    /\ FirstBlack(s, k) /\ DelimiterAt(s, k)
    /\ \E n \in (k + 3)..Len(s) : DelimiterAt(s, n)

\* C18: for every content without an opening delimiter, or with an opening
\* delimiter and no closing one, parse_frontmatter returns None and does not
\* raise, whatever `import yaml` does.
C18_NoDelimiterGivesNone ==
  (task = "frontmatter" /\ dpc = "done" /\ ~(HasOpening(content) /\ HasClosing(content))) =>
    meta = None

\* An opening delimiter and text, never closed.
C18_Witness ==
  /\ task = "frontmatter" /\ dpc = "done"
  /\ HasOpening(content) /\ ~HasClosing(content)
  /\ Len(content) = MaxChars /\ \E k \in DOMAIN content : content[k] = ":"
  /\ meta = None

IsBlock(part) == part.kind = "block"

\* The bodies of the marked blocks of a file, in the order written.
MarkedBodies(parts) ==
  LET marked == SelectSeq(parts, IsBlock)
  IN [n \in DOMAIN marked |-> Join(marked[n].body)]

\* C19: for a file with N marker comments each followed by a bash-fenced
\* block, extraction returns exactly the N bodies, in the order of the file,
\* without marker and fence lines; with no such pair it returns the empty
\* sequence.
C19_ExtractsEveryBlock ==
  (task = "extract" /\ dpc = "done") => blocks = MarkedBodies(document)

\* The same, for files whose marked blocks have at least one line of body
\* (a blank line counts).
ExtractsNonEmptyBlocks ==
  (/\ task = "extract" /\ dpc = "done"
   /\ \A n \in DOMAIN document : IsBlock(document[n]) => document[n].body # <<>>) =>
    blocks = MarkedBodies(document)

ContextKeys == {context[n].key : n \in DOMAIN context}

ValueOf(key) == (CHOOSE it \in Range(context) : it.key = key).val

\* The body with every placeholder of a context key standing for its value
\* and everything else as written.
RECURSIVE Filled(_)
Filled(pieces) ==
  IF pieces = <<>> THEN <<>>
  ELSE LET pc1 == Head(pieces)
       IN (IF ~pc1.ph THEN <<pc1.s>>
           ELSE IF pc1.s \in ContextKeys THEN ValueOf(pc1.s)
           ELSE <<"{", "{", pc1.s, "}", "}">>)
          \o Filled(Tail(pieces))

\* C20: substitution ends with the body in which every {{key}} of a context
\* key is replaced by its value, at each of its occurrences, and every
\* {{key}} of a key the context does not have stands as written; a missing
\* key stops nothing.
C20_Substitution ==
  (task = "template" /\ dpc = "done") => rendered = Filled(cmd_block)

\* {{k}} twice and {{x}} once, with a value for k only.
C20_Witness ==
  /\ task = "template" /\ dpc = "done"
  /\ ContextKeys = {"k"}
  /\ Cardinality({n \in DOMAIN cmd_block : cmd_block[n] = [ph |-> TRUE, s |-> "k"]}) = 2
  /\ \E n \in DOMAIN cmd_block : cmd_block[n] = [ph |-> TRUE, s |-> "x"]
  /\ rendered = Filled(cmd_block)
  /\ find(rendered, <<"{", "{", "x", "}", "}">>) # 0
  /\ find(rendered, <<"{", "{", "k", "}", "}">>) = 0

\* "{{" stands in s with "}}" somewhere behind it.
HasPlaceholder(s) ==
  \E a \in 1..(Len(s) - 3) : \E b \in (a + 2)..(Len(s) - 1) :
    /\ s[a] = "{" /\ s[a + 1] = "{"
    /\ s[b] = "}" /\ s[b + 1] = "}"

\* C21: the substitution applied to an already substituted text that holds
\* no {{...}} any more gives that text back unchanged.
C21_Idempotent ==
  [][(/\ task = "template" /\ dpc = "done" /\ dpc' = "again"
      /\ ~HasPlaceholder(rendered)) => rendered' = rendered]_vars

\* A body with a placeholder, filled in by the first pass and passed through
\* the second.
C21_Witness ==
  /\ task = "template" /\ dpc = "again"
  /\ \E n \in DOMAIN cmd_block : cmd_block[n].ph
  /\ Len(context) = 2
  /\ ~HasPlaceholder(rendered)
  /\ rendered = Filled(cmd_block)
  /\ rendered # BodyText(cmd_block)

\* ---- more on the execution loops (SpecExec) ------------------------------

\* C22: a run over an empty list of blocks or steps launches nothing, writes
\* no script, asks nothing, records no outcome, is not aborted, and ends by
\* an ordinary return (the process exits with status 0).
C22_EmptyPlan ==
  (matches = <<>> /\ runner # "none") =>
    /\ launched = <<>> /\ exits = <<>> /\ tmp_created = 0
    /\ outcomes = <<>> /\ answers = <<>> /\ ~aborted
    /\ pc \in {"begin", "done"}
    /\ pc = "done" => final \in {"no_blocks", "no_steps"}
    /\ exit_status \in {-1, 0}

C22_Witness ==
  /\ runner = "apply" /\ matches = <<>> /\ pc = "done"
  /\ outcomes = <<>> /\ ~aborted /\ exit_status = 0

\* ---- more on reconciliation (SpecLib) ------------------------------------

\* push_all_personas has moved past the record of lib.
PushDone(lib) ==
  cmd = "push" /\ \E k \in 1..Len(targets) : targets[k] = lib /\ k < t

\* The staging, commit and push commands issued for lib, in order.
PushOps(lib) ==
  SelectSeq(LogOf(lib),
            LAMBDA e : e.op \in {"add", "commit", "push origin main", "push origin master"})

\* At the end of the prompts lib had a remote: `git remote` listed origin,
\* or the operator's URL was added as origin.
HadRemote(lib) ==
  \/ Git(lib, "remote add", "ok") \in Range(LogOf(lib))
  \/ /\ Git(lib, "remote", "ok") \in Range(LogOf(lib))
     /\ fs[personas[lib].path].origin

\* The tree of lib was dirty when its record was taken up.
WasDirty(lib) == \E k \in DOMAIN visited : visited[k] = lib /\ sync_state[k].dirty

MissingCases ==
  {k \in DOMAIN sync_state :
     cmd = "sync" /\ ~sync_state[k].exists /\ ~sync_state[k].url}

\* A URL was supplied: the operator answered y and typed a non-blank URL.
Supplied(yes, url) == yes /\ url # ""

\* The loop is at a record with neither directory nor URL and has not
\* prompted yet.
AtMissing ==
  /\ cmd = "sync" /\ spc = "next" /\ t <= Len(targets)
  /\ ~fs[path].exists /\ p_data.remote_url = NoUrl

\* C24 as stated: at a record with neither a local copy nor a remote URL the
\* pass reports it Missing and prompts without issuing a git action; the
\* answer of the operator is followed by exactly one clone of that library
\* when a URL was supplied, and by no git action otherwise.
C24_Original ==
  [][/\ AtMissing => (spc' = "ask_clone" /\ git_log' = git_log /\ t' = t)
     /\ \A yes \in BOOLEAN, url \in UrlInputs, mk \in MkOuts, out \in Outs :
          SyncCloneFrom(yes, url, mk, out) =>
            git_log' = IF Supplied(yes, url)
                         THEN Append(git_log, Git(name, "clone", out))
                         ELSE git_log]_vars

\* C24: at a record with neither a local copy nor a remote URL the pass
\* reports it Missing and prompts without issuing a git action; when a URL
\* was supplied it issues exactly one clone of that library - unless creating
\* the parent directory raises, and then none - and otherwise no git action.
C24_CloneWhenSupplied ==
  [][/\ AtMissing => (spc' = "ask_clone" /\ git_log' = git_log /\ t' = t)
     /\ \A yes \in BOOLEAN, url \in UrlInputs, mk \in MkOuts, out \in Outs :
          SyncCloneFrom(yes, url, mk, out) =>
            git_log' = IF Supplied(yes, url) /\ mk # "raise"
                         THEN Append(git_log, Git(name, "clone", out))
                         ELSE git_log]_vars

C24_Witness ==
  \E k \in MissingCases :
    /\ k < t
    /\ LogOf(targets[k]) = <<Git(targets[k], "clone", "ok")>>
    /\ personas[targets[k]].remote_url \in Urls
    /\ fs[personas[targets[k]].path] = Cloned


\* ---- the closing report of apply_skill (SpecExec) --------------------------

\* C25: a run of apply_skill that the operator stopped after a failed block
\* is reported as aborted: the closing line "Skill Applied Successfully!" is
\* printed only when the run was not aborted.
C25_AbortReported ==
  (runner = "apply" /\ final = "Skill Applied Successfully!") => ~aborted

\* ---- sync_skills on a dirty library (SpecLib) ------------------------------

\* The commands a sync of a dirty library may issue after the decision.
SyncOps ==
  {"stash", "add", "commit", "fetch", "pull --rebase", "pull origin main",
   "pull origin master", "stash pop"}

\* C26: when sync_skills finds the library dirty and the operator chooses
\* Abort in the stash / commit / abort menu, the function returns at once:
\* no stash, commit, fetch, pull or pop is issued in the whole run, and the
\* configuration on disk and the library are left as they were.
C26_AbortIsInert ==
  [][\A o1 \in Outs, o2 \in Outs :
       SkillsDirty(2, o1, o2) =>
         /\ spc' = "done"
         /\ git_log' = git_log /\ disk' = disk /\ fs' = fs
         /\ \A n \in DOMAIN git_log' : git_log'[n].op \notin SyncOps]_vars

C26_Witness ==
  /\ cmd = "skills" /\ spc = "done"
  /\ fs[lib_path].exists /\ fs[lib_path].git /\ fs[lib_path].dirty
  /\ \A n \in DOMAIN git_log : git_log[n].op \notin SyncOps
  /\ ~needs_pop /\ ~crashed

\* ---- the standard execution loop (SpecExec) --------------------------------

\* C27: in the standard loop of deploy_project the steps are launched in plan
\* order, one exit code each; a step that exits non-zero is the last one
\* launched and ends the run without the completion line; "Deployment
\* Complete!" is printed only when every step of the plan was launched and
\* exited 0.
C27_StandardStopsAtFailure ==
  runner = "standard" =>
    /\ \A k \in DOMAIN launched : launched[k] = k
    /\ Len(exits) = Len(launched) /\ Len(launched) <= Len(matches)
    /\ \A k \in DOMAIN exits :
         exits[k] # 0 =>
           /\ k = Len(exits) /\ pc = "done"
           /\ final # "Deployment Complete!"
    /\ final = "Deployment Complete!" =>
         /\ Len(launched) = Len(matches)
         /\ \A k \in DOMAIN exits : exits[k] = 0

C27_Witness ==
  /\ runner = "standard" /\ pc = "done"
  /\ Len(matches) >= 2 /\ Len(launched) = 1 /\ exits[1] # 0
  /\ final = "none"

\* ---- persona management (SpecLib) -----------------------------------------

\* C28: whatever management functions have run, the current_persona of the
\* configuration on disk is a key of its personas map or is "programmer"; it
\* never names a persona that was renamed or deleted.
C28_CurrentPersonaExists ==
  disk.current_persona \in DOMAIN disk.personas \cup {"programmer"}

\* C29: when a sync or push pass has ended, every remote URL it put in a
\* record - after a successful attach or clone from a URL the operator
\* typed - is in that record of the configuration on disk, whatever the
\* configuration was at the start, a file without a personas map included.
C29_RemoteUrlPersisted ==
  (cmd \in {"sync", "push"} /\ spc = "done") =>
    \A n \in DOMAIN personas :
      personas[n].remote_url # NoUrl =>
        /\ n \in DOMAIN disk.personas
        /\ disk.personas[n].remote_url = personas[n].remote_url

\* A management function has just added or renamed a persona.
AddedOrRenamed ==
  /\ edits' = edits + 1
  /\ last_edit'.op \in {"add", "rename"}
  /\ disk' # disk

\* C30: whatever the operator types at add_persona and rename_persona, every
\* key of the personas map on disk is a non-empty string over [a-z0-9_] (the
\* keys of a map are unique); and an add or a rename neither creates
\* "programmer" nor replaces the record of a persona that exists.
C30_KeysWellFormed ==
  [][/\ \A n \in DOMAIN disk'.personas :
          /\ Spell(n) # <<>>
          /\ \A k \in DOMAIN Spell(n) : Spell(n)[k] \in KeyChars
     /\ AddedOrRenamed =>
          /\ "programmer" \in DOMAIN disk'.personas
                => "programmer" \in DOMAIN disk.personas
          /\ \A n \in DOMAIN disk.personas \cap DOMAIN disk'.personas :
               disk'.personas[n] = disk.personas[n]]_vars

====
